---------------------------- MODULE Spec2Model ----------------------------
(***************************************************************************)
(* Model of the pickpulse agents: the walk-forward Elo replay of           *)
(* strategy_tournament.py, the odds math of _math.py and the deployment    *)
(* gates of orchestrator.py.                                                *)
(*                                                                         *)
(* Numbers.  Python floats are modelled in fixed point:                    *)
(*   probabilities      in units of 1/10000 (PROB_ONE = 1.0)               *)
(*   Elo ratings        in units of 1/10000 rating point                   *)
(*   no-vig probabilities as exact fractions <<num, den>>                  *)
(*   log-loss, CLV      in units of 1e-5 (the code rounds to 5 places)     *)
(*   units              in units of 1e-3 (rounded to 3 places); the        *)
(*                      running total units_total in units of 1e-5         *)
(*   roi_pct            in units of 1e-2 (rounded to 2 places)             *)
(*   win_pct, pct_positive_clv in units of 1e-1 (rounded to 1 place)       *)
(* The two transcendental functions (10^x in elo_win_prob, log in          *)
(* logloss) are tabulated and interpolated linearly.                       *)
(*                                                                         *)
(* Python's None is the record None; a number v is Num(v).                 *)
(***************************************************************************)
EXTENDS Integers, Sequences, FiniteSets, TLC

VARIABLES
    NBA_ELO,   \* the module-level seed table of app/elo.py (shared, mutable dict)
    locked,    \* the list of locked-pick rows handed to every replay
    games,     \* event_id -> game result row
    closing,   \* event_id -> list of closing-line rows
    pc,        \* position of the running procedure
    vi,        \* index into the variant list of run's for loop
    cur,       \* local state of the _replay_variant call in progress
    results,   \* run's list of VariantResult rows, in completion order
    traces,    \* history: per finished replay, its rating table after each pick
    gate_in,   \* arguments of the _check_gates call
    gate_out,  \* its return value
    orch,      \* arguments, locals and effects of an orchestrator.run call
    call       \* a call of a pure function: its name, arguments and result

vars == <<NBA_ELO, locked, games, closing, pc, vi, cur, results, traces,
          gate_in, gate_out, orch, call>>

-----------------------------------------------------------------------------
(* Values *)

None == [tag |-> "None", val |-> 0]
Num(v) == [tag |-> "num", val |-> v]
IsNone(x) == "tag" \in DOMAIN x /\ x.tag = "None"

\* the floats that are not finite: nan, and inf with its sign in val
NaN == [tag |-> "nan", val |-> 0]
Inf(sign) == [tag |-> "inf", val |-> sign]
\* math.isfinite
isfinite(x) == x.tag = "num"

Abs(x) == IF x < 0 THEN -x ELSE x
Max(a, b) == IF a >= b THEN a ELSE b
Min(a, b) == IF a <= b THEN a ELSE b

RECURSIVE GCD(_, _)
GCD(a, b) == IF b = 0 THEN a ELSE GCD(b, a % b)

\* round(n/d) to the nearest integer, d > 0 (halves away from zero)
RoundDiv(n, d) ==
    IF n >= 0 THEN (2 * n + d) \div (2 * d) ELSE -((2 * (-n) + d) \div (2 * d))

RECURSIVE SumSeq(_)
SumSeq(s) == IF s = <<>> THEN 0 ELSE Head(s) + SumSeq(Tail(s))

\* an exact fraction in lowest terms
Frac(n, d) == LET g == GCD(Abs(n), d) IN <<n \div g, d \div g>>
FracSub(x, y) == Frac(x[1] * y[2] - y[1] * x[2], x[2] * y[2])

\* float arithmetic on nan, inf and finite fractions
FNeg(x) ==
    IF x.tag = "nan" THEN NaN
    ELSE IF x.tag = "inf" THEN Inf(-x.val)
    ELSE Num(<<-x.val[1], x.val[2]>>)
FAdd(x, y) ==
    IF x.tag = "nan" \/ y.tag = "nan" THEN NaN
    ELSE IF x.tag = "inf" /\ y.tag = "inf"
         THEN IF x.val = y.val THEN x ELSE NaN
    ELSE IF x.tag = "inf" THEN x
    ELSE IF y.tag = "inf" THEN y
    ELSE Num(FracSub(x.val, <<-y.val[1], y.val[2]>>))
FSub(x, y) == FAdd(x, FNeg(y))
\* x * (n/d) for a positive constant n/d
FScale(x, n, d) ==
    IF x.tag = "num" THEN Num(Frac(x.val[1] * n, x.val[2] * d)) ELSE x

PROB_ONE == 10000

-----------------------------------------------------------------------------
(* app/agents/_math.py *)

\* float(x) if x is not None else None: None stays None, a float stays itself
safe_float(x) == IF x.tag = "str" THEN None ELSE x

\* American odds -> raw implied probability: nan for None, 0.5 for zero and
\* for odds that are not finite, else a fraction
implied_prob(odds) ==
    IF IsNone(odds) THEN NaN
    ELSE IF ~isfinite(odds) \/ odds.val = 0 THEN Num(Frac(1, 2))
    ELSE IF odds.val < 0 THEN Num(Frac(-odds.val, (-odds.val) + 100))
    ELSE Num(Frac(100, odds.val + 100))

\* the arguments as they are
normalize_no_vig_raw(p_a, p_b) == <<p_a, p_b>>

\* (a/(a+b), b/(a+b)), or (0.5, 0.5) if the sum is not positive; an argument
\* that is not finite counts as 0.0
normalize_no_vig(p_a, p_b) ==
    LET fa == IF isfinite(p_a) THEN p_a.val ELSE <<0, 1>>
        fb == IF isfinite(p_b) THEN p_b.val ELSE <<0, 1>>
        a == fa[1] * fb[2]
        b == fb[1] * fa[2]
        s == a + b
    IN IF s <= 0 THEN <<Num(Frac(1, 2)), Num(Frac(1, 2))>>
       ELSE <<Num(Frac(a, s)), Num(Frac(b, s))>>

\* profit per unit risked on a win, in 1e-5 units
american_profit(odds) ==
    IF IsNone(odds) THEN Num(0)
    ELSE IF ~isfinite(odds) \/ odds.val = 0 THEN Num(0)
    ELSE IF odds.val < 0 THEN Num(RoundDiv(10000000, Abs(odds.val)))
    ELSE Num(odds.val * 1000)

\* str.strip() and str.lower() on the strings the model uses
strip(s) ==
    CASE s = "  " -> ""
      [] s = " Away " -> "Away"
      [] OTHER -> s
lower(s) ==
    CASE s = "Boston Celtics" -> "boston celtics"
      [] s = "BOSTON CELTICS" -> "boston celtics"
      [] s = "Washington Wizards" -> "washington wizards"
      [] s = "Seattle SuperSonics" -> "seattle supersonics"
      [] s = "HOME" -> "home"
      [] s = "Away" -> "away"
      [] OTHER -> s

\* the CLV of the other side
clv_moneyline_other_side(locked_ml_home, locked_ml_away, closing_ml_home, closing_ml_away, picked_side) ==
    LET lh == safe_float(locked_ml_home)
        la == safe_float(locked_ml_away)
        ch == safe_float(closing_ml_home)
        ca == safe_float(closing_ml_away)
    IN IF IsNone(lh) \/ IsNone(la) \/ IsNone(ch) \/ IsNone(ca) THEN None
       ELSE LET p_locked == normalize_no_vig(implied_prob(lh), implied_prob(la))
                p_close == normalize_no_vig(implied_prob(ch), implied_prob(ca))
                side == lower(strip(picked_side))
            IN IF side = "home" THEN Num(FracSub(p_close[2].val, p_locked[2].val))
               ELSE IF side = "away" THEN Num(FracSub(p_close[1].val, p_locked[1].val))
               ELSE None

\* closing no-vig probability of the picked side minus the locked one,
\* as a fraction, or None
clv_moneyline(locked_ml_home, locked_ml_away, closing_ml_home, closing_ml_away, picked_side) ==
    LET lh == safe_float(locked_ml_home)
        la == safe_float(locked_ml_away)
        ch == safe_float(closing_ml_home)
        ca == safe_float(closing_ml_away)
    IN IF IsNone(lh) \/ IsNone(la) \/ IsNone(ch) \/ IsNone(ca) THEN None
       ELSE LET p_locked == normalize_no_vig(implied_prob(lh), implied_prob(la))
                p_close == normalize_no_vig(implied_prob(ch), implied_prob(ca))
                side == lower(strip(picked_side))
            IN IF side = "home" THEN Num(FracSub(p_close[1].val, p_locked[1].val))
               ELSE IF side = "away" THEN Num(FracSub(p_close[2].val, p_locked[2].val))
               ELSE None

\* the point movement lp - cp scaled by 0.03, plus the shift of the raw
\* implied probability of the price when both prices are present; None
\* without a locked or a closing point.  Points are fractions.
clv_spread(locked_point, locked_price, closing_point, closing_price, picked_side) ==
    LET lp == safe_float(locked_point)
        lpr == safe_float(locked_price)
        cp == safe_float(closing_point)
        cpr == safe_float(closing_price)
    IN IF IsNone(lp) \/ IsNone(cp) THEN None
       ELSE LET point_clv == FSub(lp, cp)
                p_locked == implied_prob(lpr)
                p_closing == implied_prob(cpr)
                price_clv ==
                    IF ~IsNone(lpr) /\ ~IsNone(cpr)
                       /\ isfinite(p_locked) /\ isfinite(p_closing)
                    THEN FSub(p_closing, p_locked)
                    ELSE Num(<<0, 1>>)
            IN FAdd(FScale(point_clv, 3, 100), price_clv)

\* 10000 / (1 + 10^(-d/400)) at d = -800, -750, ..., 800 rating points
EloTable ==
    <<99, 132, 175, 232, 307, 405, 532, 698, 909, 1177, 1510, 1917, 2403,
      2966, 3599, 4285, 5000, 5715, 6401, 7034, 7597, 8083, 8490, 8823, 9091,
      9302, 9468, 9595, 9693, 9768, 9825, 9868, 9901>>

\* 1 / (1 + 10^((elo_b - elo_a)/400)) in 1/10000; ratings in 1/10000 point
elo_win_prob(elo_a, elo_b) ==
    LET d == Max(-8000000, Min(8000000, elo_a - elo_b)) + 8000000
        i == d \div 500000
        r == d % 500000
    IN IF i >= 32 THEN EloTable[33]
       ELSE EloTable[i + 1] + ((EloTable[i + 2] - EloTable[i + 1]) * (r \div 100)) \div 5000

\* -log(p) * 1e5 at p = 0 (clamped to 1e-15), 0.05, ..., 1 (clamped to 1 - 1e-15)
LogTable ==
    <<3453878, 299573, 230259, 189712, 160944, 138629, 120397, 104982, 91629,
      79851, 69315, 59784, 51083, 43078, 35667, 28768, 22314, 16252, 10536,
      5129, 0>>

NegLog(p) ==
    LET q == Max(0, Min(PROB_ONE, p))
        i == q \div 500
        r == q % 500
    IN IF i >= 20 THEN LogTable[21]
       ELSE LogTable[i + 1] - ((LogTable[i + 1] - LogTable[i + 2]) * r) \div 500

\* single-sample log loss in 1e-5; y_true is 0 or 1
logloss(y_true, y_pred) ==
    IF y_true >= 1 THEN NegLog(y_pred) ELSE NegLog(PROB_ONE - y_pred)

-----------------------------------------------------------------------------
(* app/elo.py, strategy_tournament.py: constants *)

\* the seed table, restricted to the seeded teams the model's picks name;
\* "Seattle SuperSonics" is a team the table does not hold
NBA_ELO_SEED ==
    [team \in {"Boston Celtics", "Washington Wizards"} |->
        IF team = "Boston Celtics" THEN 16000000 ELSE 14200000]

init_elo == 15000000

K_VALUES == <<8, 10, 12>>
HFA_VALUES == <<35, 40, 45, 50>>
\* 0.02, 0.03, 0.04 in units of 0.01
MIN_EDGE_VALUES == <<2, 3, 4>>

\* float("inf"), the mean log-loss of a replay without bets
LL_INF == 2000000000

\* itertools.product(K_VALUES, HFA_VALUES, MIN_EDGE_VALUES), in its order
_generate_variants ==
    [n \in 1..(Len(K_VALUES) * Len(HFA_VALUES) * Len(MIN_EDGE_VALUES)) |->
        LET j == n - 1
            nm == Len(MIN_EDGE_VALUES)
            nh == Len(HFA_VALUES)
        IN [K |-> K_VALUES[(j \div (nm * nh)) + 1],
            HFA |-> HFA_VALUES[((j \div nm) % nh) + 1],
            MIN_EDGE |-> MIN_EDGE_VALUES[(j % nm) + 1]]]

-----------------------------------------------------------------------------
(* strategy_tournament.py: _replay_variant *)

\* lp.get("game_start_time") or lp.get("run_date") or ""  (0 models "" and None)
StartKey(lp) ==
    IF lp.game_start_time # 0 THEN lp.game_start_time
    ELSE IF lp.run_date # 0 THEN lp.run_date
    ELSE 0

\* list.sort(key=...) is stable: insertion after the last element whose key is
\* not greater
RECURSIVE InsertByStart(_, _)
InsertByStart(sorted, lp) ==
    IF sorted = <<>> THEN <<lp>>
    ELSE IF StartKey(sorted[Len(sorted)]) <= StartKey(lp) THEN Append(sorted, lp)
    ELSE Append(InsertByStart(SubSeq(sorted, 1, Len(sorted) - 1), lp),
                sorted[Len(sorted)])

RECURSIVE SortFrom(_, _)
SortFrom(sorted, rest) ==
    IF rest = <<>> THEN sorted
    ELSE SortFrom(InsertByStart(sorted, Head(rest)), Tail(rest))

\* the input order kept as it is
KeepInputOrder(lst) == lst
\* lines 64-69: timed.sort(key=lambda x: x[0])
SortByStart(lst) == SortFrom(<<>>, lst)

\* line 71: ratings = {team: elo for team, elo in NBA_ELO.items()}
SeedRatings(nba) == [team \in DOMAIN nba |-> nba[team]]

\* what the shared table holds after the replay wrote `ratings`: the replay
\* writes to its own copy (line 71), so the shared table keeps its value
SharedTableAliased(nba, ratings) == ratings
SharedTableAfter(nba, ratings) == nba

\* ratings.get(team, init_elo)
RatingGet(ratings, team) ==
    IF team \in DOMAIN ratings THEN ratings[team] ELSE init_elo

\* ratings[team] = value
RatingSet(ratings, team, value) ==
    [t \in DOMAIN ratings \cup {team} |-> IF t = team THEN value ELSE ratings[t]]

\* the change taken from the home team and given to the away team
EloUpdateSwapped(ratings, home_team, away_team, k, home_won, p_home_elo) ==
    LET change == k * (home_won * PROB_ONE - p_home_elo)
        r1 == RatingSet(ratings, home_team, RatingGet(ratings, home_team) - change)
    IN RatingSet(r1, away_team, RatingGet(r1, away_team) + change)

\* the change given to the home team only
EloUpdateHomeOnly(ratings, home_team, away_team, k, home_won, p_home_elo) ==
    LET change == k * (home_won * PROB_ONE - p_home_elo)
    IN RatingSet(ratings, home_team, RatingGet(ratings, home_team) + change)

\* lines 178-180 (and 117-119): change = k * (home_won - p_home_elo)
EloUpdate(ratings, home_team, away_team, k, home_won, p_home_elo) ==
    LET change == k * (home_won * PROB_ONE - p_home_elo)
        r1 == RatingSet(ratings, home_team, RatingGet(ratings, home_team) + change)
    IN RatingSet(r1, away_team, RatingGet(r1, away_team) - change)

\* games.get(eid)
GameOf(gms, eid) == IF eid \in DOMAIN gms THEN gms[eid] ELSE None

\* lines 160-171: the last h2h closing price of each team
RECURSIVE ClosingPrices(_, _, _, _)
ClosingPrices(lines, home_lower, away_lower, acc) ==
    IF lines = <<>> THEN acc
    ELSE LET cl == Head(lines)
             name == lower(strip(cl.outcome_name))
             nxt == IF cl.market = "h2h"
                    THEN IF home_lower # "" /\ name = home_lower
                         THEN [acc EXCEPT !.home = cl.price]
                         ELSE IF away_lower # "" /\ name = away_lower
                         THEN [acc EXCEPT !.away = cl.price]
                         ELSE acc
                    ELSE acc
         IN ClosingPrices(Tail(lines), home_lower, away_lower, nxt)

\* edge = model probability - market probability, as a fraction
EdgeOf(p_model, p_nv) == <<p_model * p_nv[2] - PROB_ONE * p_nv[1], PROB_ONE * p_nv[2]>>
\* x >= y for fractions with positive denominators
FracGE(x, y) == IF x[2] = y[2] THEN x[1] >= y[1] ELSE x[1] * y[2] >= y[1] * x[2]

\* exceptions of int() on a float that is not finite
ValueError == [tag |-> "ValueError", val |-> 0]
OverflowError == [tag |-> "OverflowError", val |-> 0]
IsException(x) == x.tag \in {"ValueError", "OverflowError"}

\* int(x) of a float: ValueError for nan, OverflowError for an infinity (the
\* finite odds of the model are whole numbers)
int(x) ==
    IF x.tag = "nan" THEN ValueError
    ELSE IF x.tag = "inf" THEN OverflowError
    ELSE x

\* the local state of a replay at line 81
ReplayInit(variant, lst, nba) ==
    [variant |-> variant,
     timed |-> SortByStart(lst),
     i |-> 1,
     ratings |-> SeedRatings(nba),
     logloss_vals |-> <<>>,
     clv_vals |-> <<>>,
     units_total |-> 0,
     n_bets |-> 0,
     n_wins |-> 0,
     n_losses |-> 0,
     probs |-> <<>>,
     trace |-> <<>>,
     raised |-> None]

\* an exception leaves the loop and the function
Raise(st, exc) == [st EXCEPT !.raised = exc]

\* a `continue` before the prediction: nothing but the loop index moves
SkipPick(st) ==
    [st EXCEPT !.i = @ + 1,
               !.probs = Append(@, None),
               !.trace = Append(@, st.ratings)]

\* lines 141-175: the bet of a pick that reaches MIN_EDGE is scored
ScoreBet(st, lp, cls, best_side, p_model, bet_won, odds, lh, la) ==
    LET u == IF bet_won = 1 THEN american_profit(Num(odds)).val ELSE -100000
        cp == ClosingPrices(
                  IF lp.event_id \in DOMAIN cls THEN cls[lp.event_id] ELSE <<>>,
                  lower(strip(lp.home_team)), lower(strip(lp.away_team)),
                  [home |-> None, away |-> None])
        clv == clv_moneyline(lh, la, cp.home, cp.away, best_side)
    IN [st EXCEPT !.logloss_vals = Append(@, logloss(bet_won, p_model)),
                  !.n_wins = IF bet_won = 1 THEN @ + 1 ELSE @,
                  !.n_losses = IF bet_won = 1 THEN @ ELSE @ + 1,
                  !.units_total = @ + u,
                  !.n_bets = @ + 1,
                  !.clv_vals = IF IsNone(clv) THEN @ ELSE Append(@, clv.val)]

\* lines 107-109: the home side's model probability from the current ratings
Predict(ratings, home_team, away_team, hfa) ==
    elo_win_prob(RatingGet(ratings, home_team) + hfa, RatingGet(ratings, away_team))

\* the home side whatever the edges
BetOfHomeAlways(p_home_elo, lh, la, home_won) ==
    LET nv == normalize_no_vig(implied_prob(lh), implied_prob(la))
    IN [best_side |-> "home", edge |-> EdgeOf(p_home_elo, nv[1].val),
        p_model |-> p_home_elo, bet_won |-> home_won, odds |-> int(lh)]

\* lines 122-139: the side with the larger edge (home on a tie)
BetOf(p_home_elo, lh, la, home_won) ==
    LET nv == normalize_no_vig(implied_prob(lh), implied_prob(la))
        p_away_elo == PROB_ONE - p_home_elo
        edge_home == EdgeOf(p_home_elo, nv[1].val)
        edge_away == EdgeOf(p_away_elo, nv[2].val)
    IN IF FracGE(edge_home, edge_away)
       THEN [best_side |-> "home", edge |-> edge_home, p_model |-> p_home_elo,
             bet_won |-> home_won, odds |-> int(lh)]
       ELSE [best_side |-> "away", edge |-> edge_away, p_model |-> p_away_elo,
             bet_won |-> 1 - home_won, odds |-> int(la)]

\* the end of an iteration that predicted p_home_elo and leaves `ratings`
Advance(st, ratings, p_home_elo) ==
    [st EXCEPT !.i = @ + 1,
               !.ratings = ratings,
               !.probs = Append(@, Num(p_home_elo)),
               !.trace = Append(@, ratings)]

\* a step that updates the ratings only for the picks it bets on
MoneylinePickBetOnly(st, lp, cls, home_team, away_team, home_won) ==
    LET p_home_elo == Predict(st.ratings, home_team, away_team,
                              st.variant.HFA * PROB_ONE)
        lh == safe_float(lp.locked_ml_home)
        la == safe_float(lp.locked_ml_away)
        updated == EloUpdate(st.ratings, home_team, away_team, st.variant.K,
                             home_won, p_home_elo)
    IN IF IsNone(lh) \/ IsNone(la) THEN Advance(st, updated, p_home_elo)
       ELSE LET bet == BetOf(p_home_elo, lh, la, home_won)
            IN IF IsException(bet.odds) THEN Raise(st, bet.odds)
               ELSE IF FracGE(bet.edge, Frac(st.variant.MIN_EDGE, 100))
               THEN Advance(ScoreBet(st, lp, cls, bet.best_side, bet.p_model,
                                     bet.bet_won, bet.odds.val, lh, la),
                            updated, p_home_elo)
               ELSE Advance(st, st.ratings, p_home_elo)

\* a step that updates the ratings with the game's result before it predicts
MoneylinePickPeek(st, lp, cls, home_team, away_team, home_won) ==
    LET p_before == Predict(st.ratings, home_team, away_team,
                            st.variant.HFA * PROB_ONE)
        updated == EloUpdate(st.ratings, home_team, away_team, st.variant.K,
                             home_won, p_before)
        p_home_elo == Predict(updated, home_team, away_team,
                              st.variant.HFA * PROB_ONE)
        lh == safe_float(lp.locked_ml_home)
        la == safe_float(lp.locked_ml_away)
    IN IF IsNone(lh) \/ IsNone(la) THEN Advance(st, updated, p_home_elo)
       ELSE LET bet == BetOf(p_home_elo, lh, la, home_won)
                scored == IF FracGE(bet.edge, Frac(st.variant.MIN_EDGE, 100))
                          THEN ScoreBet(st, lp, cls, bet.best_side, bet.p_model,
                                        bet.bet_won, bet.odds.val, lh, la)
                          ELSE st
            IN IF IsException(bet.odds) THEN Raise(st, bet.odds)
               ELSE Advance(scored, updated, p_home_elo)

\* lines 106-180: a moneyline pick with teams and a final score
MoneylinePick(st, lp, cls, home_team, away_team, home_won) ==
    LET k == st.variant.K
        hfa == st.variant.HFA * PROB_ONE
        min_edge == Frac(st.variant.MIN_EDGE, 100)
        p_home_elo == Predict(st.ratings, home_team, away_team, hfa)
        lh == safe_float(lp.locked_ml_home)
        la == safe_float(lp.locked_ml_away)
        updated == EloUpdate(st.ratings, home_team, away_team, k, home_won,
                             p_home_elo)
    IN IF IsNone(lh) \/ IsNone(la) THEN Advance(st, updated, p_home_elo)
       ELSE LET bet == BetOf(p_home_elo, lh, la, home_won)
                would_pick == FracGE(bet.edge, min_edge)
                scored == IF would_pick
                          THEN ScoreBet(st, lp, cls, bet.best_side, bet.p_model,
                                        bet.bet_won, bet.odds.val, lh, la)
                          ELSE st
            IN IF IsException(bet.odds) THEN Raise(st, bet.odds)
               ELSE Advance(scored, updated, p_home_elo)

\* lines 82-180: one iteration of the loop over `timed`
ReplayStep(st, lp, gms, cls) ==
    LET game == GameOf(gms, lp.event_id)
        home_team == strip(lp.home_team)
        away_team == strip(lp.away_team)
    IN IF IsNone(game) THEN SkipPick(st)
       ELSE IF home_team = "" \/ away_team = "" THEN SkipPick(st)
       ELSE IF IsNone(safe_float(game.home_score))
               \/ IsNone(safe_float(game.away_score)) THEN SkipPick(st)
       ELSE IF lp.market # "moneyline" THEN SkipPick(st)
       ELSE MoneylinePick(st, lp, cls, home_team, away_team,
                          IF game.home_score.val > game.away_score.val THEN 1 ELSE 0)

\* a CLV fraction in units of 1e-5
ClvFixed(c) == RoundDiv(c[1] * 100000, c[2])

RECURSIVE SumClv(_)
SumClv(cs) == IF cs = <<>> THEN 0 ELSE ClvFixed(Head(cs)) + SumClv(Tail(cs))

CountPositive(cs) == Cardinality({j \in 1..Len(cs) : cs[j][1] > 0})

\* lines 182-199: the VariantResult row of a finished replay
Score(st) ==
    LET nl == Len(st.logloss_vals)
        nc == Len(st.clv_vals)
    IN [K |-> st.variant.K,
        HFA |-> st.variant.HFA,
        MIN_EDGE |-> st.variant.MIN_EDGE,
        n_bets |-> st.n_bets,
        n_wins |-> st.n_wins,
        n_losses |-> st.n_losses,
        win_pct |-> IF st.n_bets # 0 THEN Num(RoundDiv(st.n_wins * 1000, st.n_bets))
                    ELSE None,
        units |-> RoundDiv(st.units_total, 100),
        roi_pct |-> IF st.n_bets # 0 THEN RoundDiv(st.units_total, 10 * st.n_bets)
                    ELSE 0,
        logloss |-> IF nl # 0 THEN RoundDiv(SumSeq(st.logloss_vals), nl) ELSE LL_INF,
        mean_clv |-> IF nc # 0 THEN RoundDiv(SumClv(st.clv_vals), nc) ELSE 0,
        pct_positive_clv |-> IF nc # 0
                             THEN RoundDiv(CountPositive(st.clv_vals) * 1000, nc)
                             ELSE 0]

\* the whole loop of lines 82-180 from local state st
RECURSIVE ReplayLoop(_, _, _)
ReplayLoop(st, gms, cls) ==
    IF st.i > Len(st.timed) \/ ~IsNone(st.raised) THEN st
    ELSE ReplayLoop(ReplayStep(st, st.timed[st.i], gms, cls), gms, cls)

\* _replay_variant(variant, locked, games, closing) as one call, seeded from nba
_replay_variant(variant, lst, gms, cls, nba) ==
    ReplayLoop(ReplayInit(variant, lst, nba), gms, cls)

-----------------------------------------------------------------------------
(* strategy_tournament.py: run *)

\* a key with the bet count as a third component, more bets first
RankLEMoreBetsFirst(a, b) ==
    \/ a.logloss < b.logloss
    \/ a.logloss = b.logloss /\ -a.mean_clv < -b.mean_clv
    \/ a.logloss = b.logloss /\ a.mean_clv = b.mean_clv /\ a.n_bets >= b.n_bets

\* the sort key of line 235: (logloss, -mean_clv), compared as tuples
RankLE(a, b) ==
    \/ a.logloss < b.logloss
    \/ a.logloss = b.logloss /\ -a.mean_clv <= -b.mean_clv

RECURSIVE InsertByRank(_, _)
InsertByRank(sorted, r) ==
    IF sorted = <<>> THEN <<r>>
    ELSE IF RankLE(sorted[Len(sorted)], r) THEN Append(sorted, r)
    ELSE Append(InsertByRank(SubSeq(sorted, 1, Len(sorted) - 1), r),
                sorted[Len(sorted)])

RECURSIVE RankFrom(_, _)
RankFrom(sorted, rest) ==
    IF rest = <<>> THEN sorted
    ELSE RankFrom(InsertByRank(sorted, Head(rest)), Tail(rest))

\* line 235: results.sort(key=lambda r: (r["logloss"], -r.get("mean_clv", 0)))
RankResults(rs) == RankFrom(<<>>, rs)

\* lines 238-243: the first row with the champion's parameters, or None
ChampionOf(rs) ==
    LET hits == {j \in 1..Len(rs) :
                    rs[j].K = 10 /\ rs[j].HFA = 40 /\ rs[j].MIN_EDGE = 3}
    IN IF hits = {} THEN None
       ELSE rs[CHOOSE j \in hits : \A m \in hits : j <= m]

-----------------------------------------------------------------------------
(* orchestrator.py: _check_gates *)

_GATE_MIN_SAMPLE == 200
\* 2.0 percent
_GATE_LOGLOSS_IMPROVEMENT_PCT == 2
\* 2.0 in units of 1e-2
_GATE_ROI_REGRESSION_MAX == 200
\* 0.62 in units of 1e-4
_GATE_OVERCONFIDENCE_MAX == 6200

\* d.get(key, default)
DictGet(d, key, default) == IF key \in DOMAIN d THEN d[key] ELSE default

EmptyDict == [x \in {} |-> x]
NEG_INF == <<-1, 0>>

\* a champion without a usable log-loss is beaten by default
LLImprovementDefaultPass(ch_ll, cl_ll) ==
    IF ch_ll > 0 /\ ch_ll # LL_INF
    THEN IF cl_ll = LL_INF THEN NEG_INF ELSE <<(ch_ll - cl_ll) * 100, ch_ll>>
    ELSE <<_GATE_LOGLOSS_IMPROVEMENT_PCT, 1>>

\* lines 63-68: the improvement in percent as a fraction; float arithmetic
\* gives -inf for an infinite challenger log-loss
LLImprovementPct(ch_ll, cl_ll) ==
    IF ch_ll > 0 /\ ch_ll # LL_INF
    THEN IF cl_ll = LL_INF THEN NEG_INF ELSE <<(ch_ll - cl_ll) * 100, ch_ll>>
    ELSE <<0, 1>>

\* a challenger without bets taken as certain of its picks
AvgConfidenceCertainWithoutBets(challenger, calibration) ==
    LET from_cal ==
            IF ~IsNone(calibration)
               /\ DOMAIN DictGet(calibration, "metrics", EmptyDict) # {}
            THEN DictGet(calibration.metrics, "avg_confidence", None)
            ELSE None
        n_wins == DictGet(challenger, "n_wins", 0)
        n_bets_c == DictGet(challenger, "n_bets", 1)
    IN IF ~IsNone(from_cal) THEN <<from_cal.val, PROB_ONE>>
       ELSE IF n_bets_c > 0 THEN <<n_wins, n_bets_c>> ELSE <<1, 1>>

\* lines 105-113: the confidence the overconfidence gate judges, as a fraction
AvgConfidence(challenger, calibration) ==
    LET from_cal ==
            IF ~IsNone(calibration)
               /\ DOMAIN DictGet(calibration, "metrics", EmptyDict) # {}
            THEN DictGet(calibration.metrics, "avg_confidence", None)
            ELSE None
        n_wins == DictGet(challenger, "n_wins", 0)
        n_bets_c == DictGet(challenger, "n_bets", 1)
    IN IF ~IsNone(from_cal) THEN <<from_cal.val, PROB_ONE>>
       ELSE IF n_bets_c > 0 THEN <<n_wins, n_bets_c>> ELSE <<1, 2>>

\* a missing bet count taken as enough
GateSampleSizeDefaultPass(challenger) ==
    LET n == DictGet(challenger, "n_bets", _GATE_MIN_SAMPLE)
    IN [gate |-> "sample_size",
        passed |-> n >= _GATE_MIN_SAMPLE,
        value |-> n,
        threshold |-> _GATE_MIN_SAMPLE]

\* Gate 1, lines 53-60
GateSampleSize(challenger) ==
    LET n == DictGet(challenger, "n_bets", 0)
    IN [gate |-> "sample_size",
        passed |-> n >= _GATE_MIN_SAMPLE,
        value |-> n,
        threshold |-> _GATE_MIN_SAMPLE]

\* a challenger that is not worse than the champion passes
GateLoglossNotWorse(champion, challenger) ==
    LET ch_ll == DictGet(champion, "logloss", LL_INF)
        cl_ll == DictGet(challenger, "logloss", LL_INF)
        imp == LLImprovementPct(ch_ll, cl_ll)
    IN [gate |-> "logloss_improvement",
        passed |-> imp # NEG_INF /\ FracGE(imp, <<0, 1>>),
        champion_ll |-> ch_ll,
        challenger_ll |-> cl_ll,
        threshold_pct |-> _GATE_LOGLOSS_IMPROVEMENT_PCT]

\* Gate 2, lines 62-76
GateLogloss(champion, challenger) ==
    LET ch_ll == DictGet(champion, "logloss", LL_INF)
        cl_ll == DictGet(challenger, "logloss", LL_INF)
        imp == LLImprovementPct(ch_ll, cl_ll)
    IN [gate |-> "logloss_improvement",
        passed |-> imp # NEG_INF /\ FracGE(imp, <<_GATE_LOGLOSS_IMPROVEMENT_PCT, 1>>),
        champion_ll |-> ch_ll,
        challenger_ll |-> cl_ll,
        threshold_pct |-> _GATE_LOGLOSS_IMPROVEMENT_PCT]

\* a mean CLV of zero taken as positive
GateClvNonNegative(challenger) ==
    LET cl_clv == DictGet(challenger, "mean_clv", 0)
        cl_pct == DictGet(challenger, "pct_positive_clv", 0)
    IN [gate |-> "clv",
        passed |-> (cl_clv >= 0 \/ cl_pct >= 520),
        mean_clv |-> cl_clv,
        pct_positive_clv |-> cl_pct]

\* Gate 3, lines 78-88 (52.0 percent is 520 tenths)
GateClv(challenger) ==
    LET cl_clv == DictGet(challenger, "mean_clv", 0)
        cl_pct == DictGet(challenger, "pct_positive_clv", 0)
    IN [gate |-> "clv",
        passed |-> (cl_clv > 0 \/ cl_pct >= 520),
        mean_clv |-> cl_clv,
        pct_positive_clv |-> cl_pct]

\* Gate 4, lines 90-101
GateRoi(champion, challenger) ==
    LET ch_roi == DictGet(champion, "roi_pct", 0)
        cl_roi == DictGet(challenger, "roi_pct", 0)
        roi_regression == ch_roi - cl_roi
    IN [gate |-> "roi_regression",
        passed |-> roi_regression <= _GATE_ROI_REGRESSION_MAX,
        champion_roi |-> ch_roi,
        challenger_roi |-> cl_roi,
        max_allowed |-> _GATE_ROI_REGRESSION_MAX]

\* the ceiling alone, without the win-rate exception
GateOverconfidenceNoBacking(challenger, calibration) ==
    LET cl_avg_conf == AvgConfidence(challenger, calibration)
    IN [gate |-> "overconfidence",
        passed |-> FracGE(<<_GATE_OVERCONFIDENCE_MAX, PROB_ONE>>, cl_avg_conf),
        avg_confidence |-> cl_avg_conf,
        threshold |-> _GATE_OVERCONFIDENCE_MAX,
        win_pct |-> DictGet(challenger, "win_pct", None)]

\* Gate 5, lines 103-125 (win_pct / 100.0 is win_pct tenths / 1000; 0.03 is 3/100)
GateOverconfidence(challenger, calibration) ==
    LET cl_win_pct == DictGet(challenger, "win_pct", None)
        cl_avg_conf == AvgConfidence(challenger, calibration)
        conf_ok == FracGE(<<_GATE_OVERCONFIDENCE_MAX, PROB_ONE>>, cl_avg_conf)
        backed == IF ~conf_ok /\ ~IsNone(cl_win_pct)
                  THEN FracGE(<<3, 100>>,
                              <<Abs(cl_avg_conf[1] * 1000 - cl_win_pct.val * cl_avg_conf[2]),
                                cl_avg_conf[2] * 1000>>)
                  ELSE conf_ok
    IN [gate |-> "overconfidence",
        passed |-> backed,
        avg_confidence |-> cl_avg_conf,
        threshold |-> _GATE_OVERCONFIDENCE_MAX,
        win_pct |-> cl_win_pct]

\* any() for all()
AnyPassed(checks) == \E j \in 1..Len(checks) : checks[j].passed
\* line 127: all(c["passed"] for c in checks)
AllPassed(checks) == \A j \in 1..Len(checks) : checks[j].passed

\* only the champion looked at
MissingChampionOnly(champion, challenger) == IsNone(champion)
\* line 47: champion is None or challenger is None
MissingData(champion, challenger) == IsNone(champion) \/ IsNone(challenger)

\* lines 39-128
_check_gates(champion, challenger, calibration) ==
    IF MissingData(champion, challenger)
    THEN [passed |-> FALSE,
          checks |-> <<[gate |-> "data", passed |-> FALSE]>>]
    ELSE LET checks == <<GateSampleSize(challenger),
                         GateLogloss(champion, challenger),
                         GateClv(challenger),
                         GateRoi(champion, challenger),
                         GateOverconfidence(challenger, calibration)>>
         IN [passed |-> AllPassed(checks), checks |-> checks]

-----------------------------------------------------------------------------
(* The inputs *)

\* the longest pick list
MaxPicks == 3

Teams == <<"Boston Celtics", "Washington Wizards", "Seattle SuperSonics">>
HomeOf(s) == Teams[((s - 1) % 3) + 1]
AwayOf(s) == Teams[(s % 3) + 1]

\* locked and closing moneyline prices <<home, away>> of the pick in slot s
LockedOdds(s) ==
    CASE s % 3 = 1 -> <<-350, 290>>
      [] s % 3 = 2 -> <<140, -160>>
      [] OTHER -> <<150, -170>>
ClosingOdds(s) ==
    CASE s % 3 = 1 -> <<-380, 310>>
      [] s % 3 = 2 -> <<150, -170>>
      [] OTHER -> <<150, -170>>

\* locked prices at which the market rates the home side above every variant's
\* prediction
AwayValueOdds == <<-900, 600>>

\* what can be particular to one row of the input
Defects == {"no_odds", "spread", "no_game", "no_score", "no_team", "no_closing",
            "run_date", "away_value"}

\* the locked-pick row of slot s, starting at time t
PickRow(s, t, defect) ==
    [event_id |-> s,
     game_start_time |-> IF defect = "run_date" THEN 0 ELSE t,
     run_date |-> IF defect = "run_date" THEN t ELSE 0,
     home_team |-> IF defect = "no_team" THEN "  " ELSE HomeOf(s),
     away_team |-> AwayOf(s),
     market |-> IF defect = "spread" THEN "spread" ELSE "moneyline",
     locked_ml_home |-> IF defect = "no_odds" THEN None
                        ELSE IF defect = "away_value" THEN Num(AwayValueOdds[1])
                        ELSE Num(LockedOdds(s)[1]),
     locked_ml_away |-> IF defect = "away_value" THEN Num(AwayValueOdds[2])
                        ELSE Num(LockedOdds(s)[2])]

GameRow(home_won, defect) ==
    [tag |-> "game",
     home_score |-> IF defect = "no_score" THEN None
                    ELSE IF home_won = 1 THEN Num(110) ELSE Num(95),
     away_score |-> Num(101)]

ClosingRows(s) ==
    <<[market |-> "spreads", outcome_name |-> HomeOf(s), price |-> Num(-110)],
      [market |-> "h2h",
       outcome_name |-> IF HomeOf(s) = "Boston Celtics" THEN "BOSTON CELTICS"
                        ELSE HomeOf(s),
       price |-> Num(ClosingOdds(s)[1])],
      [market |-> "h2h", outcome_name |-> AwayOf(s), price |-> Num(ClosingOdds(s)[2])]>>

\* n picks; the pick in slot s starts at time ((s - 1 + rot) % n) + 1 (rot = 0:
\* the list is in start order); at most one slot (bad) carries a defect
InputLocked(n, rot, bad, defect) ==
    [s \in 1..n |-> PickRow(s, ((s - 1 + rot) % n) + 1,
                            IF s = bad THEN defect ELSE "none")]
InputGames(n, won, bad, defect) ==
    [s \in {e \in 1..n : ~(e = bad /\ defect = "no_game")} |->
        GameRow(won[s], IF s = bad THEN defect ELSE "none")]
InputClosing(n, bad, defect) ==
    [s \in {e \in 1..n : ~(e = bad /\ defect = "no_closing")} |-> ClosingRows(s)]

\* what the calibration stage can hand to the gates
Calibrations ==
    {None, [metrics |-> EmptyDict]}
    \cup {[metrics |-> [avg_confidence |-> Num(c)]] : c \in {5800, 6500}}

NoReplay == [variant |-> None]
NoGate == None
NoOrch == None
NoCall == None

-----------------------------------------------------------------------------
(* The tournament: strategy_tournament.run followed by the gating of          *)
(* orchestrator.run (lines 322-337)                                           *)

Init ==
    /\ NBA_ELO = NBA_ELO_SEED
    /\ \E n \in 0..MaxPicks :
       \E rot \in 0..Min(1, Max(0, n - 1)) :
       \E won \in [1..n -> {0, 1}] :
       \E bad \in 0..n :
       \E defect \in IF bad = 0 THEN {"none"} ELSE Defects :
          /\ locked = InputLocked(n, rot, bad, defect)
          /\ games = InputGames(n, won, bad, defect)
          /\ closing = InputClosing(n, bad, defect)
    /\ pc = "run_loop"
    /\ vi = 1
    /\ cur = NoReplay
    /\ results = <<>>
    /\ traces = <<>>
    /\ gate_in = NoGate
    /\ gate_out = NoGate
    /\ orch = NoOrch
    /\ call = NoCall

\* line 229, entry of _replay_variant up to line 81
StartReplay ==
    /\ pc = "run_loop"
    /\ vi <= Len(_generate_variants)
    /\ cur' = ReplayInit(_generate_variants[vi], locked, NBA_ELO)
    /\ pc' = "replay"
    /\ UNCHANGED <<NBA_ELO, locked, games, closing, vi, results, traces,
                   gate_in, gate_out, orch, call>>

\* one iteration of the loop of lines 82-180
ReplayPick ==
    /\ pc = "replay"
    /\ IsNone(cur.raised)
    /\ cur.i <= Len(cur.timed)
    /\ cur' = ReplayStep(cur, cur.timed[cur.i], games, closing)
    /\ NBA_ELO' = SharedTableAfter(NBA_ELO, cur'.ratings)
    /\ UNCHANGED <<locked, games, closing, pc, vi, results, traces,
                   gate_in, gate_out, orch, call>>

\* lines 182-199 and 230: the row is scored, returned and appended
FinishReplay ==
    /\ pc = "replay"
    /\ IsNone(cur.raised)
    /\ cur.i > Len(cur.timed)
    /\ results' = Append(results, Score(cur))
    /\ traces' = Append(traces, cur.trace)
    /\ vi' = vi + 1
    /\ pc' = "run_loop"
    /\ UNCHANGED <<NBA_ELO, locked, games, closing, cur, gate_in, gate_out, orch, call>>

\* lines 234-255: the ranking
Rank ==
    /\ pc = "run_loop"
    /\ vi > Len(_generate_variants)
    /\ results' = RankResults(results)
    /\ pc' = "gate"
    /\ UNCHANGED <<NBA_ELO, locked, games, closing, vi, cur, traces,
                   gate_in, gate_out, orch, call>>

\* orchestrator.run lines 333-337
Gate ==
    /\ pc = "gate"
    /\ \E calibration \in Calibrations :
          /\ gate_in' = [champion |-> ChampionOf(results),
                         challenger |-> results[1],
                         calibration |-> calibration]
          /\ gate_out' = _check_gates(ChampionOf(results), results[1], calibration)
    /\ pc' = "done"
    /\ UNCHANGED <<NBA_ELO, locked, games, closing, vi, cur, results, traces, orch, call>>

Next == StartReplay \/ ReplayPick \/ FinishReplay \/ Rank \/ Gate

Spec == Init /\ [][Next]_vars

-----------------------------------------------------------------------------
(* _check_gates called on its own, with arguments around every threshold *)

\* dict d without key k
Without(d, k) == [x \in DOMAIN d \ {k} |-> d[x]]

\* a VariantResult row as Score builds it
ResultRow(n_bets, win_tenths, ll, clv, pct, roi) ==
    [K |-> 12, HFA |-> 40, MIN_EDGE |-> 2,
     n_bets |-> n_bets,
     n_wins |-> RoundDiv(n_bets * win_tenths, 1000),
     n_losses |-> n_bets - RoundDiv(n_bets * win_tenths, 1000),
     win_pct |-> IF n_bets # 0 THEN Num(win_tenths) ELSE None,
     units |-> (roi * n_bets) \div 10,
     roi_pct |-> roi,
     logloss |-> ll,
     mean_clv |-> clv,
     pct_positive_clv |-> pct]

\* the row of a replay whose picks have no closing line: it bets, and no CLV
\* value can be computed
NoClvRow ==
    Score(_replay_variant(_generate_variants[1], InputLocked(2, 0, 0, "none"),
                          InputGames(2, [s \in 1..2 |-> 1], 0, "none"),
                          EmptyDict, NBA_ELO_SEED))

GateChallengerRows ==
    {ResultRow(n, w, ll, clv, pct, roi) :
        n \in {0, 199, 200, 250}, w \in {600, 650, 700},
        ll \in {65500, 66640, 66641, LL_INF}, clv \in {-100, 0, 1500},
        pct \in {0, 519, 520, 550}, roi \in {-150, -300, -301}}

GateChallengers ==
    {None, NoClvRow}
    \cup GateChallengerRows
    \cup {Without(ResultRow(250, 600, 65500, 1500, 550, -150), k) :
             k \in {"n_bets", "logloss", "mean_clv", "win_pct"}}

GateChampions ==
    {None, Without(ResultRow(250, 600, 68000, 1000, 530, -100), "logloss")}
    \cup {ResultRow(250, 600, ll, 1000, 530, -100) : ll \in {0, 68000, LL_INF}}

GateCalibrations ==
    {None, [metrics |-> EmptyDict], [metrics |-> [n |-> 40]]}
    \cup {[metrics |-> [avg_confidence |-> Num(c)]] :
             c \in {5800, 6200, 6201, 6500, 6800, 7300}}

InitGates ==
    /\ NBA_ELO = NBA_ELO_SEED
    /\ locked = <<>>
    /\ games = EmptyDict
    /\ closing = EmptyDict
    /\ pc = "check_gates"
    /\ vi = 1
    /\ cur = NoReplay
    /\ results = <<>>
    /\ traces = <<>>
    /\ \E champion \in GateChampions :
       \E challenger \in GateChallengers :
       \E calibration \in GateCalibrations :
          gate_in = [champion |-> champion, challenger |-> challenger,
                     calibration |-> calibration]
    /\ gate_out = NoGate
    /\ orch = NoOrch
    /\ call = NoCall

\* the call _check_gates(champion, challenger, calibration)
CheckGates ==
    /\ pc = "check_gates"
    /\ gate_out' = _check_gates(gate_in.champion, gate_in.challenger,
                                gate_in.calibration)
    /\ pc' = "done"
    /\ UNCHANGED <<NBA_ELO, locked, games, closing, vi, cur, results, traces,
                   gate_in, orch, call>>

NextGates == CheckGates

SpecGates == InitGates /\ [][NextGates]_vars

-----------------------------------------------------------------------------
(* Properties of the replay *)

\* the replay that finished last is still in cur; it ran configuration LastDone
LastDone == Len(traces)
ReplayJustFinished == pc = "run_loop" /\ traces # <<>>

\* the game of event q with the other team winning
FlipGame(gms, q) ==
    [gms EXCEPT ![q] = [@ EXCEPT !.home_score = gms[q].away_score,
                                 !.away_score = gms[q].home_score]]

Perms(n) == {f \in [1..n -> 1..n] : \A x, y \in 1..n : f[x] = f[y] => x = y}
DistinctStarts(lst) ==
    \A x, y \in 1..Len(lst) : StartKey(lst[x]) = StartKey(lst[y]) => x = y

\* C1: two replays of the same picks with the same K and HFA have the same
\* rating table after every pick, whatever their MIN_EDGE
C1_RatingsIgnoreMinEdge ==
    ReplayJustFinished =>
        \A b \in 1..LastDone :
            (/\ _generate_variants[b].K = _generate_variants[LastDone].K
             /\ _generate_variants[b].HFA = _generate_variants[LastDone].HFA)
            => traces[b] = traces[LastDone]

\* two finished replays with the same K and HFA bet on different picks, and
\* the ratings moved
C1_Witness ==
    /\ ReplayJustFinished
    /\ \E b \in 1..LastDone :
          /\ _generate_variants[b].K = _generate_variants[LastDone].K
          /\ _generate_variants[b].HFA = _generate_variants[LastDone].HFA
          /\ results[b].n_bets # results[LastDone].n_bets
          /\ \E j \in 1..Len(traces[b]) : traces[b][j] # SeedRatings(NBA_ELO_SEED)

\* C2: changing the result of the game at position i of the processing order
\* changes neither the model probability used at any position up to i nor the
\* ratings left by any position before i
C2_WalkForwardCausality ==
    ReplayJustFinished =>
        \A i \in 1..Len(cur.timed) :
           LET q == cur.timed[i].event_id
           IN q \in DOMAIN games =>
                 LET alt == _replay_variant(cur.variant, locked, FlipGame(games, q),
                                            closing, NBA_ELO_SEED)
                 IN \A j \in 1..i :
                       /\ alt.probs[j] = cur.probs[j]
                       /\ j < i => alt.trace[j] = cur.trace[j]

\* the result of a game that is not the first changes the ratings it leaves,
\* and a prediction was made before it
C2_Witness ==
    /\ ReplayJustFinished
    /\ \E i \in 2..Len(cur.timed) :
          LET q == cur.timed[i].event_id
          IN /\ q \in DOMAIN games
             /\ ~IsNone(cur.probs[i - 1])
             /\ _replay_variant(cur.variant, locked, FlipGame(games, q), closing,
                                NBA_ELO_SEED).trace[i] # cur.trace[i]

C4_RowAsAlone ==
    ReplayJustFinished =>
        results[LastDone] = Score(_replay_variant(cur.variant, locked, games, closing,
                                                  NBA_ELO_SEED))

-----------------------------------------------------------------------------
(* Properties of the gates *)

GateDone == pc = "done" /\ gate_out # NoGate
BothPresent == ~IsNone(gate_in.champion) /\ ~IsNone(gate_in.challenger)
GateNames == [j \in 1..Len(gate_out.checks) |-> gate_out.checks[j].gate]

\* C5: with champion and challenger present there are exactly the five checks,
\* in their order, and the verdict is the conjunction of the five
C5_FiveChecksAllMustPass ==
    GateDone /\ BothPresent =>
        /\ GateNames = <<"sample_size", "logloss_improvement", "clv",
                         "roi_regression", "overconfidence">>
        /\ gate_out.passed <=> (\A j \in 1..5 : gate_out.checks[j].passed)

\* exactly one of the five checks failed, and the verdict is false
C5_Witness ==
    /\ GateDone
    /\ BothPresent
    /\ Cardinality({j \in 1..5 : ~gate_out.checks[j].passed}) = 1
    /\ ~gate_out.passed

\* C6: a missing champion or challenger gives the verdict false with the one
\* failed check "data" and none of the five checks
C6_MissingDataShortCircuit ==
    GateDone /\ ~BothPresent =>
        /\ gate_out.passed = FALSE
        /\ Len(gate_out.checks) = 1
        /\ gate_out.checks[1].gate = "data"
        /\ gate_out.checks[1].passed = FALSE

\* the challenger alone is missing
C6_Witness ==
    /\ GateDone
    /\ ~IsNone(gate_in.champion)
    /\ IsNone(gate_in.challenger)
    /\ GateNames = <<"data">>

\* C7: the sample_size check passes exactly when the challenger has a bet
\* count and it is at least 200; a failed check makes the verdict false
C7_SampleSizeGate ==
    GateDone /\ BothPresent =>
        LET c == gate_out.checks[1]
        IN /\ c.gate = "sample_size"
           /\ c.passed <=> (/\ "n_bets" \in DOMAIN gate_in.challenger
                            /\ gate_in.challenger.n_bets >= 200)
           /\ ~c.passed => ~gate_out.passed

\* a challenger row without bet count: the check is recorded as failed
C7_Witness ==
    /\ GateDone
    /\ BothPresent
    /\ "n_bets" \notin DOMAIN gate_in.challenger
    /\ gate_out.checks[1].gate = "sample_size"
    /\ ~gate_out.checks[1].passed
    /\ ~gate_out.passed

\* C8: the logloss_improvement check passes exactly when
\* (championLL - challengerLL) / championLL * 100 >= 2, and fails whenever the
\* champion's log-loss is zero or infinite
C8_LoglossGate ==
    GateDone /\ BothPresent =>
        LET c == gate_out.checks[2]
            ch == DictGet(gate_in.champion, "logloss", LL_INF)
            cl == DictGet(gate_in.challenger, "logloss", LL_INF)
        IN /\ c.gate = "logloss_improvement"
           /\ (ch > 0 /\ ch # LL_INF) =>
                 (c.passed <=> (cl # LL_INF /\ (ch - cl) * 100 >= 2 * ch))
           /\ (ch = 0 \/ ch = LL_INF) => ~c.passed

\* a champion with log-loss zero or infinite, a challenger with a finite one:
\* the check failed
C8_Witness ==
    /\ GateDone
    /\ BothPresent
    /\ DictGet(gate_in.champion, "logloss", LL_INF) \in {0, LL_INF}
    /\ DictGet(gate_in.challenger, "logloss", LL_INF) # LL_INF
    /\ ~gate_out.checks[2].passed

\* C9: the clv check passes exactly when the mean CLV is positive or the
\* percent-positive CLV is at least 52; the row of a replay without any CLV
\* value fails it
C9_ClvGate ==
    GateDone /\ BothPresent =>
        LET c == gate_out.checks[3]
            clv == DictGet(gate_in.challenger, "mean_clv", 0)
            pct == DictGet(gate_in.challenger, "pct_positive_clv", 0)
        IN /\ c.gate = "clv"
           /\ c.passed <=> (clv > 0 \/ pct >= 520)
           /\ gate_in.challenger = NoClvRow => ~c.passed

\* the challenger is the row of a replay that bet and found no closing line
C9_Witness ==
    /\ GateDone
    /\ BothPresent
    /\ gate_in.challenger = NoClvRow
    /\ NoClvRow.n_bets > 0
    /\ ~gate_out.checks[3].passed

-----------------------------------------------------------------------------
(* orchestrator.py: run and _finalize *)

Str(v) == [tag |-> "str", val |-> v]

\* d[k] = v
DictSet(d, k, v) == [x \in DOMAIN d \cup {k} |-> IF x = k THEN v ELSE d[x]]

\* an exception that leaves run()
KeyError == [tag |-> "KeyError", val |-> 0]
IsKeyError(x) == "tag" \in DOMAIN x /\ x.tag = "KeyError"

\* `not single or agent == name`
StageRuns(agent, name) == IsNone(agent) \/ agent.val = name
\* `single and agent == name`
StageLast(agent, name) == ~IsNone(agent) /\ agent.val = name

\* what a stage other than calibration and tournament puts into the report
StageReport(name) == [tag |-> "report", val |-> name]

\* lines 341-353: the champion configuration built from the top row; a key the
\* row does not hold raises KeyError (deployed_at is left out)
DeployConfig(top) ==
    IF {"C", "MIN_EDGE", "logloss", "mean_clv", "pct_positive_clv", "roi_pct",
        "n_bets"} \subseteq DOMAIN top
    THEN [C |-> top["C"],
          MIN_EDGE |-> top["MIN_EDGE"],
          metrics |-> [logloss |-> top["logloss"],
                       mean_clv |-> top["mean_clv"],
                       pct_positive_clv |-> top["pct_positive_clv"],
                       roi_pct |-> top["roi_pct"],
                       n_bets |-> top["n_bets"],
                       win_pct |-> DictGet(top, "win_pct", None)]]
    ELSE KeyError

\* the champion artifact written from the top row whenever there is one,
\* whatever the mode and the verdict
DeployBranchUngated(o) ==
    LET top == o.tourney.top_5[1]
    IN [o EXCEPT !.artifact = [K |-> top.K, HFA |-> top.HFA,
                               MIN_EDGE |-> top.MIN_EDGE]]

\* lines 339-364 on the locals o of run
DeployBranch(o) ==
    LET top == o.tourney.top_5[1]
        gating == o.report["gating"]
    IN IF o.deploy /\ gating.passed /\ ~IsNone(top)
       THEN LET config == DeployConfig(top)
            IN IF IsKeyError(config) THEN [o EXCEPT !.raised = KeyError]
               ELSE [o EXCEPT !.artifact = IF o.dry_run THEN @ ELSE config,
                              !.report = DictSet(@, "deployed_config", config)]
       ELSE o

\* lines 323-330 on the locals o of run: strategy_tournament.run has returned
\* `tourney` and the report takes it without all_results
TournamentReport(o) ==
    [o EXCEPT !.report =
        DictSet(@, "strategy_tournament", Without(o.tourney, "all_results"))]

\* lines 333-337 on the locals o of run: the gates on the tournament's output
Gating(o) ==
    LET tourney == o.tourney
        champion == DictGet(tourney, "champion", None)
        top == DictGet(tourney, "top_5", <<None>>)[1]
        gating == _check_gates(champion, top,
                               DictGet(o.report, "calibration_agent", None))
    IN [o EXCEPT !.report = DictSet(@, "gating", gating)]

\* _build_markdown, lines 205-220: the tournament section reads key "C" of the
\* champion row and of every top-5 row; a row without it raises KeyError
_build_markdown(report) ==
    LET tourney == DictGet(report, "strategy_tournament", EmptyDict)
        top5 == DictGet(tourney, "top_5", <<>>)
        champ == DictGet(tourney, "champion", None)
    IN IF top5 # <<>>
          /\ \/ ~IsNone(champ) /\ "C" \notin DOMAIN champ
             \/ \E j \in 1..Len(top5) : "C" \notin DOMAIN top5[j]
       THEN KeyError
       ELSE Str("markdown")

\* _finalize on the locals o of run: with dry_run nothing is written; otherwise
\* report.json is written, then report.md, and the report is returned
_finalize(o) ==
    IF o.dry_run THEN [o EXCEPT !.returned = o.report]
    ELSE LET md == _build_markdown(o.report)
         IN IF IsKeyError(md)
            THEN [o EXCEPT !.report_file = o.report, !.raised = KeyError]
            ELSE [o EXCEPT !.report_file = o.report, !.returned = o.report]

\* the row of the deployed parameters (K 10, HFA 40, MIN_EDGE 0.03)
ChampionRow ==
    [ResultRow(250, 600, 68000, 1000, 530, -100)
        EXCEPT !.K = 10, !.HFA = 40, !.MIN_EDGE = 3]

\* rows that rank first: a challenger around the gates' thresholds
OrchTopRows ==
    {ResultRow(n, 600, ll, 1500, 550, -150) : n \in {150, 250}, ll \in {65500, 67500}}

\* strategy_tournament.run's report with `top` ranked first
TourneyReport(top) ==
    [n_variants |-> Len(_generate_variants),
     champion |-> ChampionRow,
     top_5 |-> <<top, ChampionRow>>,
     all_results |-> <<top, ChampionRow>>]

\* log-losses of a champion row: none, tiny, ordinary, and that of no bets
ChampionLoglosses == {0, 1, 68000, LL_INF}

\* the report of a tournament whose champion row, with log-loss ll, ranks first
ChampionOnTopReport(ll) ==
    LET row == [ChampionRow EXCEPT !.logloss = ll]
    IN [n_variants |-> Len(_generate_variants),
        champion |-> row,
        top_5 |-> <<row>>,
        all_results |-> <<row>>]

OrchTourneys ==
    {TourneyReport(top) : top \in OrchTopRows}
    \cup {ChampionOnTopReport(ll) : ll \in ChampionLoglosses}

\* run's agent argument: None, a stage name, or a name of no stage
OrchAgents ==
    {None, Str("clv_auditor"), Str("error_attribution"), Str("feature_discovery"),
     Str("calibration_agent"), Str("strategy_tournament"), Str("no_such_agent")}

OrchCalibrations ==
    {[metrics |-> EmptyDict]}
    \cup {[metrics |-> [avg_confidence |-> Num(c)]] : c \in {5800, 6800}}

InitOrch ==
    /\ NBA_ELO = NBA_ELO_SEED
    /\ locked = <<>>
    /\ games = EmptyDict
    /\ closing = EmptyDict
    /\ pc = "clv_auditor"
    /\ vi = 1
    /\ cur = NoReplay
    /\ results = <<>>
    /\ traces = <<>>
    /\ gate_in = NoGate
    /\ gate_out = NoGate
    /\ call = NoCall
    /\ \E deploy \in BOOLEAN, dry_run \in BOOLEAN, agent \in OrchAgents,
          cal \in OrchCalibrations, tourney \in OrchTourneys :
          orch = [deploy |-> deploy,
                  dry_run |-> dry_run,
                  agent |-> agent,
                  cal |-> cal,
                  tourney |-> tourney,
                  report |-> [mode |-> IF deploy THEN "deploy" ELSE "shadow"],
                  artifact |-> None,
                  report_file |-> None,
                  returned |-> None,
                  raised |-> None]

\* a stage of lines 269-320: it runs or is skipped, and a single-stage run stops
\* after its stage
Stage(name, value, next) ==
    /\ pc = name
    /\ orch' = IF StageRuns(orch.agent, name)
               THEN [orch EXCEPT !.report = DictSet(@, name, value)]
               ELSE orch
    /\ pc' = IF StageLast(orch.agent, name) THEN "finalize" ELSE next
    /\ UNCHANGED <<NBA_ELO, locked, games, closing, vi, cur, results, traces,
                   gate_in, gate_out, call>>

\* lines 269-282
RunClvAuditor == Stage("clv_auditor", StageReport("clv_auditor"), "error_attribution")
\* lines 284-292
RunErrorAttribution ==
    Stage("error_attribution", StageReport("error_attribution"), "feature_discovery")
\* lines 294-309
RunFeatureDiscovery ==
    Stage("feature_discovery", StageReport("feature_discovery"), "calibration_agent")
\* the calibration stage handing over to the gates, past the tournament
RunCalibrationAgentThenGating == Stage("calibration_agent", orch.cal, "gating")

\* lines 311-320
RunCalibrationAgent == Stage("calibration_agent", orch.cal, "strategy_tournament")

\* lines 322-330: the tournament, or the end of the run
RunStrategyTournament ==
    /\ pc = "strategy_tournament"
    /\ IF StageRuns(orch.agent, "strategy_tournament")
       THEN /\ orch' = TournamentReport(orch)
            /\ pc' = "gating"
       ELSE /\ orch' = orch
            /\ pc' = "finalize"
    /\ UNCHANGED <<NBA_ELO, locked, games, closing, vi, cur, results, traces,
                   gate_in, gate_out, call>>

\* lines 332-337: the gates, evaluated in the tournament's branch
EvaluateGates ==
    /\ pc = "gating"
    /\ orch' = Gating(orch)
    /\ pc' = "deploy"
    /\ UNCHANGED <<NBA_ELO, locked, games, closing, vi, cur, results, traces,
                   gate_in, gate_out, call>>

\* lines 339-364
DeployChampion ==
    /\ pc = "deploy"
    /\ orch' = DeployBranch(orch)
    /\ pc' = IF IsKeyError(orch'.raised) THEN "raised" ELSE "finalize"
    /\ UNCHANGED <<NBA_ELO, locked, games, closing, vi, cur, results, traces,
                   gate_in, gate_out, call>>

\* lines 366-391
Finalize ==
    /\ pc = "finalize"
    /\ orch' = _finalize(orch)
    /\ pc' = IF IsKeyError(orch'.raised) THEN "raised" ELSE "returned"
    /\ UNCHANGED <<NBA_ELO, locked, games, closing, vi, cur, results, traces,
                   gate_in, gate_out, call>>

NextOrch ==
    \/ RunClvAuditor
    \/ RunErrorAttribution
    \/ RunFeatureDiscovery
    \/ RunCalibrationAgent
    \/ RunStrategyTournament
    \/ EvaluateGates
    \/ DeployChampion
    \/ Finalize

SpecOrch == InitOrch /\ [][NextOrch]_vars

-----------------------------------------------------------------------------
(* Properties of the orchestrator *)

OrchDone == pc \in {"returned", "raised"}
TournamentRan == "strategy_tournament" \in DOMAIN orch.report
GatesPassed == "gating" \in DOMAIN orch.report /\ orch.report["gating"].passed

\* C11: the champion artifact is written only by a run in deploy mode, without
\* dry_run, whose gate verdict is passed
C11_ArtifactOnlyOnDeployAndPass ==
    ~IsNone(orch.artifact) => (orch.deploy /\ ~orch.dry_run /\ GatesPassed)

\* runs that ended without the artifact: shadow mode with every gate passed,
\* and deploy mode with a failed gate
C11_Witness ==
    /\ OrchDone
    /\ TournamentRan
    /\ IsNone(orch.artifact)
    /\ \/ ~orch.deploy /\ GatesPassed
       \/ orch.deploy /\ ~orch.dry_run /\ ~GatesPassed

\* C12: a run in deploy mode without dry_run whose tournament ran and whose
\* gates all passed ends by returning a report, with the artifact written from
\* the top row and deployed_config holding K, HFA and MIN_EDGE
C12_DeployWritesChampion ==
    (OrchDone /\ orch.deploy /\ ~orch.dry_run /\ TournamentRan /\ GatesPassed) =>
        /\ pc = "returned"
        /\ ~IsNone(orch.artifact)
        /\ orch.artifact.metrics.logloss = orch.tourney.top_5[1].logloss
        /\ "deployed_config" \in DOMAIN orch.returned
        /\ {"K", "HFA", "MIN_EDGE"} \subseteq DOMAIN orch.returned["deployed_config"]

\* the gate audit record as the run delivered it: in the returned report or in
\* the written report.json
AuditRecords ==
    {r \in {orch.returned, orch.report_file} : ~IsNone(r) /\ "gating" \in DOMAIN r}

\* C13: a run whose tournament stage ran ends with the gate audit record
\* delivered, holding the verdict and all the per-check entries
C13_GateAuditAlwaysProduced ==
    (OrchDone /\ TournamentRan) =>
        /\ AuditRecords # {}
        /\ \A r \in AuditRecords :
              /\ {"passed", "checks"} \subseteq DOMAIN r["gating"]
              /\ Len(r["gating"].checks) >= 1

-----------------------------------------------------------------------------
(* strategy_tournament.run, line 235: the ranking on its own *)

\* the longest result list that is ranked
MaxRanked == 3

\* the row of the j-th configuration of the grid with the given metrics
RankInputRow(j, ll, clv, n_bets) ==
    [ResultRow(n_bets, 600, ll, clv, 550, -150)
        EXCEPT !.K = _generate_variants[j].K,
               !.HFA = _generate_variants[j].HFA,
               !.MIN_EDGE = _generate_variants[j].MIN_EDGE]

RankMetrics ==
    {<<ll, clv, n>> : ll \in {65500, 67500, LL_INF}, clv \in {-100, 0, 1500},
                      n \in {1, 250}}

InitRank ==
    /\ NBA_ELO = NBA_ELO_SEED
    /\ locked = <<>>
    /\ games = EmptyDict
    /\ closing = EmptyDict
    /\ pc = "rank"
    /\ vi = 1
    /\ cur = NoReplay
    /\ \E n \in 0..MaxRanked :
       \E ms \in [1..n -> RankMetrics] :
          results = [j \in 1..n |-> RankInputRow(j, ms[j][1], ms[j][2], ms[j][3])]
    /\ traces = <<>>
    /\ gate_in = NoGate
    /\ gate_out = NoGate
    /\ orch = NoOrch
    /\ call = NoCall

\* line 235; the list as it was is kept in call
SortResults ==
    /\ pc = "rank"
    /\ call' = [fn |-> "sort", args |-> results]
    /\ results' = RankResults(results)
    /\ pc' = "ranked"
    /\ UNCHANGED <<NBA_ELO, locked, games, closing, vi, cur, traces,
                   gate_in, gate_out, orch>>

NextRank == SortResults

SpecRank == InitRank /\ [][NextRank]_vars

\* the position a ranked row had in the list before the sort
InputIndex(row) == CHOOSE j \in 1..Len(call.args) : call.args[j] = row

\* C14: the ranked list holds the rows of the input list, in ascending
\* log-loss, rows of equal log-loss in descending mean CLV, and rows equal in
\* both in the order they had before, whatever their bet counts
C14_RankingByLoglossThenClv ==
    pc = "ranked" =>
        /\ Len(results) = Len(call.args)
        /\ {results[j] : j \in 1..Len(results)}
              = {call.args[j] : j \in 1..Len(call.args)}
        /\ \A i, j \in 1..Len(results) :
              i < j =>
                 /\ results[i].logloss <= results[j].logloss
                 /\ results[i].logloss = results[j].logloss
                       => results[i].mean_clv >= results[j].mean_clv
                 /\ (/\ results[i].logloss = results[j].logloss
                     /\ results[i].mean_clv = results[j].mean_clv)
                       => InputIndex(results[i]) < InputIndex(results[j])

\* the sort moved a row of higher mean CLV ahead of one of equal log-loss, and
\* left a row with fewer bets ahead of one equal in log-loss and mean CLV
C14_Witness ==
    /\ pc = "ranked"
    /\ \E i, j \in 1..Len(results) :
          /\ i < j
          /\ results[i].logloss = results[j].logloss
          /\ results[i].mean_clv > results[j].mean_clv
          /\ InputIndex(results[i]) > InputIndex(results[j])
    /\ \E i, j \in 1..Len(results) :
          /\ i < j
          /\ results[i].logloss = results[j].logloss
          /\ results[i].mean_clv = results[j].mean_clv
          /\ results[i].n_bets < results[j].n_bets

-----------------------------------------------------------------------------
(* calibration_agent.py: isotonic_fit and _blocks_to_knots *)
(* A sample is <<x, y>>: a confidence x in units of 1/100 and an outcome y in *)
(* {0, 1}.  A block's fitted probability y is the exact fraction              *)
(* <<num, den>> in units of 1e-6; its weight w is a count.                    *)

\* the most samples of a fit
MaxSamples == 4

\* 1e-6 and 1 - 1e-6 in units of 1e-6
CLAMP_LO == 1
CLAMP_HI == 999999

\* max(1e-6, min(1 - 1e-6, p)) on a fraction
_clamp_prob(p) ==
    IF p[1] < CLAMP_LO * p[2] THEN <<CLAMP_LO * p[2], p[2]>>
    ELSE IF p[1] > CLAMP_HI * p[2] THEN <<CLAMP_HI * p[2], p[2]>>
    ELSE p

\* a > b for fractions with positive denominators
FracGT(a, b) == a[1] * b[2] > b[1] * a[2]

\* sorted(range(len(x)), key=lambda i: x[i]): stable, by x alone
RECURSIVE InsertByX(_, _)
InsertByX(sorted, smp) ==
    IF sorted = <<>> THEN <<smp>>
    ELSE IF sorted[Len(sorted)][1] <= smp[1] THEN Append(sorted, smp)
    ELSE Append(InsertByX(SubSeq(sorted, 1, Len(sorted) - 1), smp),
                sorted[Len(sorted)])

RECURSIVE SortByX(_, _)
SortByX(sorted, rest) ==
    IF rest = <<>> THEN sorted
    ELSE SortByX(InsertByX(sorted, Head(rest)), Tail(rest))

\* lines 55-63: the block that replaces b1 and b2
MergeBlocks(b1, b2) ==
    LET tw == b1.w + b2.w
        avg == IF tw > 0
               THEN <<b1.y[1] * b2.y[2] * b1.w + b2.y[1] * b1.y[2] * b2.w,
                      b1.y[2] * b2.y[2] * tw>>
               ELSE <<b1.y[1] * b2.y[2] + b2.y[1] * b1.y[2], 2 * b1.y[2] * b2.y[2]>>
        g == GCD(avg[1], avg[2])
    IN [y |-> _clamp_prob(<<avg[1] \div g, avg[2] \div g>>),
        w |-> tw,
        x_min |-> b1.x_min,
        x_max |-> b2.x_max]

\* an `if` for the `while`: at most one merge per sample
PoolOnce(blocks) ==
    LET n == Len(blocks)
    IN IF n >= 2 /\ FracGT(blocks[n - 1].y, blocks[n].y)
       THEN Append(SubSeq(blocks, 1, n - 2), MergeBlocks(blocks[n - 1], blocks[n]))
       ELSE blocks

\* lines 54-63: while len(blocks) >= 2 and blocks[-2].y > blocks[-1].y
RECURSIVE Pool(_)
Pool(blocks) ==
    LET n == Len(blocks)
    IN IF n >= 2 /\ FracGT(blocks[n - 1].y, blocks[n].y)
       THEN Pool(Append(SubSeq(blocks, 1, n - 2),
                        MergeBlocks(blocks[n - 1], blocks[n])))
       ELSE blocks

\* lines 50-63: the loop over the sorted samples, weights 1.0
RECURSIVE FitFrom(_, _)
FitFrom(blocks, rest) ==
    IF rest = <<>> THEN blocks
    ELSE LET xi == Head(rest)[1]
             yi == _clamp_prob(<<Head(rest)[2] * 1000000, 1>>)
         IN FitFrom(Pool(Append(blocks, [y |-> yi, w |-> 1, x_min |-> xi,
                                         x_max |-> xi])),
                    Tail(rest))

\* isotonic_fit(x, y) on the samples <<x[i], y[i]>>
isotonic_fit(samples) == FitFrom(<<>>, SortByX(<<>>, samples))

\* knots.sort(key=lambda k: k["x_max"]): stable
RECURSIVE InsertKnot(_, _)
InsertKnot(sorted, k) ==
    IF sorted = <<>> THEN <<k>>
    ELSE IF sorted[Len(sorted)].x_max <= k.x_max THEN Append(sorted, k)
    ELSE Append(InsertKnot(SubSeq(sorted, 1, Len(sorted) - 1), k),
                sorted[Len(sorted)])

RECURSIVE SortKnots(_, _)
SortKnots(sorted, rest) ==
    IF rest = <<>> THEN sorted
    ELSE SortKnots(InsertKnot(sorted, Head(rest)), Tail(rest))

\* lines 68-77
_blocks_to_knots(blocks) ==
    SortKnots(<<>>, [j \in 1..Len(blocks) |->
                        [x_max |-> blocks[j].x_max,
                         p |-> _clamp_prob(blocks[j].y),
                         n |-> blocks[j].w]])

\* confidences 0.55, 0.60, 0.65 and both outcomes
SampleValues == {<<x, y>> : x \in {55, 60, 65}, y \in {0, 1}}

InitCalib ==
    /\ NBA_ELO = NBA_ELO_SEED
    /\ locked = <<>>
    /\ games = EmptyDict
    /\ closing = EmptyDict
    /\ pc = "isotonic_fit"
    /\ vi = 1
    /\ cur = NoReplay
    /\ results = <<>>
    /\ traces = <<>>
    /\ gate_in = NoGate
    /\ gate_out = NoGate
    /\ orch = NoOrch
    /\ \E n \in 0..MaxSamples :
       \E samples \in [1..n -> SampleValues] :
          call = [fn |-> "isotonic_fit", args |-> samples, blocks |-> <<>>,
                  knots |-> <<>>]

\* calibration_agent.run line 175: blocks = isotonic_fit(confs, outcomes)
IsotonicFit ==
    /\ pc = "isotonic_fit"
    /\ call' = [call EXCEPT !.blocks = isotonic_fit(call.args)]
    /\ pc' = "blocks_to_knots"
    /\ UNCHANGED <<NBA_ELO, locked, games, closing, vi, cur, results, traces,
                   gate_in, gate_out, orch>>

\* calibration_agent.run line 176: knots = _blocks_to_knots(blocks)
BlocksToKnots ==
    /\ pc = "blocks_to_knots"
    /\ call' = [call EXCEPT !.fn = "_blocks_to_knots",
                            !.knots = _blocks_to_knots(call.blocks)]
    /\ pc' = "fitted"
    /\ UNCHANGED <<NBA_ELO, locked, games, closing, vi, cur, results, traces,
                   gate_in, gate_out, orch>>

NextCalib == IsotonicFit \/ BlocksToKnots

SpecCalib == InitCalib /\ [][NextCalib]_vars

-----------------------------------------------------------------------------
(* Properties of the isotonic fit *)

BlocksFitted == pc \in {"blocks_to_knots", "fitted"}

\* C15: the fitted probabilities of the blocks isotonic_fit returns, and of the
\* knots built from them, are non-decreasing from each one to the next
C15_PavaMonotone ==
    /\ BlocksFitted =>
          \A j \in 1..(Len(call.blocks) - 1) :
             ~FracGT(call.blocks[j].y, call.blocks[j + 1].y)
    /\ pc = "fitted" =>
          /\ Len(call.knots) = Len(call.blocks)
          /\ \A j \in 1..(Len(call.knots) - 1) :
                ~FracGT(call.knots[j].p, call.knots[j + 1].p)

\* a fit that pooled twice for one sample and left two knots of different
\* fitted probability
C15_Witness ==
    /\ pc = "fitted"
    /\ Len(call.knots) >= 2
    /\ FracGT(call.knots[2].p, call.knots[1].p)
    /\ \E j \in 1..Len(call.blocks) : call.blocks[j].w >= 3

\* C16: the thresholds x_max of the knots are strictly increasing from each
\* knot to the next
C16_KnotThresholdsStrictlyIncreasing ==
    pc = "fitted" =>
        \A j \in 1..(Len(call.knots) - 1) :
           call.knots[j].x_max < call.knots[j + 1].x_max

-----------------------------------------------------------------------------
(* _math.py: the odds functions called on their own *)

\* a price as a caller can hand it over: absent, not finite, zero, or finite
PriceValues ==
    {None, NaN, Inf(1), Inf(-1), Num(0), Num(-110), Num(100), Num(150), Num(240)}

\* finite positive American odds
PositiveOdds == {Num(o) : o \in {1, 100, 110, 150, 180, 255, 500, 10000}}

\* a spread point, as a fraction
PointValues ==
    {None, NaN, Inf(1), Inf(-1), Num(<<-7, 2>>), Num(<<-5, 1>>), Num(<<3, 1>>)}

Sides == {"home", "away", "HOME", " Away ", "draw"}

InitMath ==
    /\ NBA_ELO = NBA_ELO_SEED
    /\ locked = <<>>
    /\ games = EmptyDict
    /\ closing = EmptyDict
    /\ pc = "math"
    /\ vi = 1
    /\ cur = NoReplay
    /\ results = <<>>
    /\ traces = <<>>
    /\ gate_in = NoGate
    /\ gate_out = NoGate
    /\ orch = NoOrch
    /\ call = NoCall

\* a call returns; the rest of the state is left alone
MathFrame ==
    /\ pc' = "called"
    /\ UNCHANGED <<NBA_ELO, locked, games, closing, vi, cur, results, traces,
                   gate_in, gate_out, orch>>

CallImpliedProb ==
    /\ pc = "math"
    /\ \E odds \in PriceValues \cup PositiveOdds :
          call' = [fn |-> "implied_prob", args |-> <<odds>>,
                   ret |-> implied_prob(odds)]
    /\ MathFrame

\* normalize_no_vig(implied_prob(a), implied_prob(b))
CallNormalizeNoVig ==
    /\ pc = "math"
    /\ \E a \in PriceValues \cup PositiveOdds, b \in PriceValues \cup PositiveOdds :
          call' = [fn |-> "normalize_no_vig", args |-> <<a, b>>,
                   ret |-> normalize_no_vig(implied_prob(a), implied_prob(b))]
    /\ MathFrame

CallAmericanProfit ==
    /\ pc = "math"
    /\ \E odds \in PriceValues :
          call' = [fn |-> "american_profit", args |-> <<odds>>,
                   ret |-> american_profit(odds)]
    /\ MathFrame

CallClvMoneyline ==
    /\ pc = "math"
    /\ \E lh \in PriceValues, la \in PriceValues, ch \in PriceValues,
          ca \in PriceValues, side \in Sides :
          call' = [fn |-> "clv_moneyline", args |-> <<lh, la, ch, ca, side>>,
                   ret |-> clv_moneyline(lh, la, ch, ca, side)]
    /\ MathFrame

CallClvSpread ==
    /\ pc = "math"
    /\ \E lp \in PointValues, lpr \in PriceValues, cp \in PointValues,
          cpr \in PriceValues, side \in {"home", "away"} :
          call' = [fn |-> "clv_spread", args |-> <<lp, lpr, cp, cpr, side>>,
                   ret |-> clv_spread(lp, lpr, cp, cpr, side)]
    /\ MathFrame

NextMath ==
    \/ CallImpliedProb
    \/ CallNormalizeNoVig
    \/ CallAmericanProfit
    \/ CallClvMoneyline
    \/ CallClvSpread

SpecMath == InitMath /\ [][NextMath]_vars

-----------------------------------------------------------------------------
(* Properties of the odds functions *)

Called(fn) == call # NoCall /\ call.fn = fn

\* 0 < p < 1 for a fraction with positive denominator
StrictlyInside01(p) == 0 < p[1] /\ p[1] < p[2]

SideIndex(side) ==
    IF lower(strip(side)) = "home" THEN 1
    ELSE IF lower(strip(side)) = "away" THEN 2
    ELSE 0

\* C18: clv_moneyline returns None when one of the four prices is absent;
\* with the four prices present and a side home or away it returns the closing
\* no-vig probability of that side minus the locked one, which is positive
\* exactly when the closing probability of the side is the larger
C18_ClvMoneylineDefinition ==
    Called("clv_moneyline") =>
        LET lh == call.args[1]
            la == call.args[2]
            ch == call.args[3]
            ca == call.args[4]
            k == SideIndex(call.args[5])
        IN /\ (IsNone(lh) \/ IsNone(la) \/ IsNone(ch) \/ IsNone(ca))
                 => IsNone(call.ret)
           /\ (~IsNone(lh) /\ ~IsNone(la) /\ ~IsNone(ch) /\ ~IsNone(ca) /\ k # 0) =>
                 LET p_locked == normalize_no_vig(implied_prob(lh), implied_prob(la))[k].val
                     p_close == normalize_no_vig(implied_prob(ch), implied_prob(ca))[k].val
                 IN /\ isfinite(call.ret)
                    /\ call.ret.val[1] * p_close[2] * p_locked[2]
                          = (p_close[1] * p_locked[2] - p_locked[1] * p_close[2])
                               * call.ret.val[2]
                    /\ call.ret.val[1] > 0 <=> FracGT(p_close, p_locked)

\* the away side picked at +100 against -110 and closed at -110 against +100:
\* its CLV is positive
C18_Witness ==
    /\ Called("clv_moneyline")
    /\ call.args = <<Num(-110), Num(100), Num(100), Num(-110), " Away ">>
    /\ isfinite(call.ret)
    /\ call.ret.val[1] > 0

\* a float or None that is None or a finite number
FiniteOrNone(x) == IsNone(x) \/ isfinite(x)

\* C19: every odds function returns a finite number or None for every input,
\* and implied_prob returns 0.5 for zero and for odds that are not finite
C19_TotalNeverNaN ==
    /\ Called("implied_prob") =>
          /\ FiniteOrNone(call.ret)
          /\ (~IsNone(call.args[1])
              /\ (~isfinite(call.args[1]) \/ call.args[1].val = 0))
                => call.ret = Num(<<1, 2>>)
    /\ Called("normalize_no_vig") =>
          FiniteOrNone(call.ret[1]) /\ FiniteOrNone(call.ret[2])
    /\ Called("american_profit") => FiniteOrNone(call.ret)
    /\ Called("clv_moneyline") => FiniteOrNone(call.ret)
    /\ Called("clv_spread") => FiniteOrNone(call.ret)

-----------------------------------------------------------------------------
(* clv_auditor.py *)

MaxAudit == 3

\* `a in b` for the strings of the model
StrIn(a, b) == a = b \/ <<a, b>> \in {<<"celtics", "boston celtics">>}

\* _math.py, resolve_side: the pick's selection mapped to home or away
resolve_side(pick, home_team, away_team) ==
    LET sel == lower(strip(IF pick.selection_team # "" THEN pick.selection_team
                           ELSE pick.side))
        home == lower(strip(home_team))
        away == lower(strip(away_team))
    IN IF sel = "" THEN None
       ELSE IF home # "" /\ (StrIn(home, sel) \/ StrIn(sel, home)) THEN Str("home")
       ELSE IF away # "" /\ (StrIn(away, sel) \/ StrIn(sel, away)) THEN Str("away")
       ELSE None

\* lines 51-67: the first home and away team names of the snapshot
RECURSIVE CanonicalTeams(_, _, _)
CanonicalTeams(snapshot, home, away) ==
    IF snapshot = <<>> THEN <<home, away>>
    ELSE LET r == Head(snapshot)
             h == strip(r.home_team)
             a == strip(r.away_team)
             home2 == IF h # "" THEN h ELSE home
             away2 == IF a # "" THEN a ELSE away
         IN IF home2 # "" /\ away2 # "" THEN <<home2, away2>>
            ELSE CanonicalTeams(Tail(snapshot), home2, away2)

\* lines 74-97: the first price and point of each side and market
RECURSIVE SnapshotOdds(_, _, _, _)
SnapshotOdds(snapshot, home_lower, away_lower, out) ==
    IF snapshot = <<>> THEN out
    ELSE LET r == Head(snapshot)
             name == lower(strip(r.outcome_name))
             is_home == name = home_lower
             is_away == name = away_lower
             nxt ==
                IF r.market = "h2h"
                THEN IF is_home /\ "ml_home" \notin DOMAIN out
                     THEN DictSet(out, "ml_home", r.price)
                     ELSE IF is_away /\ "ml_away" \notin DOMAIN out
                     THEN DictSet(out, "ml_away", r.price)
                     ELSE out
                ELSE IF r.market = "spreads"
                THEN IF is_home /\ "spread_home_point" \notin DOMAIN out
                     THEN DictSet(DictSet(out, "spread_home_point", r.point),
                                  "spread_home_price", r.price)
                     ELSE IF is_away /\ "spread_away_point" \notin DOMAIN out
                     THEN DictSet(DictSet(out, "spread_away_point", r.point),
                                  "spread_away_price", r.price)
                     ELSE out
                ELSE out
         IN SnapshotOdds(Tail(snapshot), home_lower, away_lower, nxt)

\* the odds of the latest snapshot captured at or before the cutoff; the empty
\* dict without one.  Times are integers, 0 for a missing time.
_extract_odds_at(lines, cutoff_iso) ==
    IF lines = <<>> \/ cutoff_iso = 0 THEN EmptyDict
    ELSE LET Eligible(cl) == cl.captured_at # 0 /\ cl.captured_at <= cutoff_iso
             eligible == SelectSeq(lines, Eligible)
         IN IF eligible = <<>> THEN EmptyDict
            ELSE LET latest_ts == CHOOSE t \in {eligible[j].captured_at : j \in 1..Len(eligible)} :
                                     \A j \in 1..Len(eligible) : eligible[j].captured_at <= t
                     Latest(r) == r.captured_at = latest_ts
                     snapshot == SelectSeq(eligible, Latest)
                     teams == CanonicalTeams(snapshot, "", "")
                     home_lower == lower(teams[1])
                     away_lower == lower(teams[2])
                 IN IF home_lower = "" \/ away_lower = "" THEN EmptyDict
                    ELSE SnapshotOdds(snapshot, home_lower, away_lower,
                                      [x \in {"_home_team", "_away_team"} |->
                                          IF x = "_home_team" THEN teams[1] ELSE teams[2]])

\* lines 119-127: the locked_* columns of the pick
LockedColumns(pick) ==
    [x \in {"ml_home", "ml_away", "spread_home_point", "spread_home_price",
            "spread_away_point", "spread_away_price"} |->
        CASE x = "ml_home" -> pick.locked_ml_home
          [] x = "ml_away" -> pick.locked_ml_away
          [] x = "spread_home_point" -> pick.locked_spread_home_point
          [] x = "spread_home_price" -> pick.locked_spread_home_price
          [] x = "spread_away_point" -> pick.locked_spread_away_point
          [] OTHER -> pick.locked_spread_away_price]

\* the CLV record of one locked pick, None without a closing snapshot, without
\* a side, for another market and for a CLV that is None
_compute_pick_clv(pick, lines) ==
    LET at_lock == _extract_odds_at(lines, pick.locked_at)
        closing_odds == _extract_odds_at(lines, pick.game_start_time)
        locked_odds == IF at_lock = EmptyDict THEN LockedColumns(pick) ELSE at_lock
    IN IF closing_odds = EmptyDict THEN None
       ELSE LET home_team == closing_odds["_home_team"]
                away_team == closing_odds["_away_team"]
                side == resolve_side(pick, home_team, away_team)
            IN IF IsNone(side) THEN None
               ELSE LET clv ==
                          IF pick.market = "moneyline"
                          THEN clv_moneyline(DictGet(locked_odds, "ml_home", None),
                                             DictGet(locked_odds, "ml_away", None),
                                             DictGet(closing_odds, "ml_home", None),
                                             DictGet(closing_odds, "ml_away", None),
                                             side.val)
                          ELSE LET pt == IF side.val = "home" THEN "spread_home_point"
                                         ELSE "spread_away_point"
                                   pr == IF side.val = "home" THEN "spread_home_price"
                                         ELSE "spread_away_price"
                               IN clv_spread(DictGet(locked_odds, pt, None),
                                             DictGet(locked_odds, pr, None),
                                             DictGet(closing_odds, pt, None),
                                             DictGet(closing_odds, pr, None),
                                             side.val)
                    IN IF pick.market \notin {"moneyline", "spread"} THEN None
                       ELSE IF IsNone(clv) THEN None
                       ELSE [event_id |-> pick.event_id,
                             market |-> pick.market,
                             tier |-> pick.tier,
                             side |-> side.val,
                             clv |-> clv]

\* line 195: the CLV values that are not None and finite
UsableClv(p) ==
    LET c == DictGet(p, "clv", None) IN ~IsNone(c) /\ isfinite(c)

\* every CLV value, None and non-finite ones counted as zero
ClvsZeroFilled(picks) ==
    [j \in 1..Len(picks) |->
        IF UsableClv(picks[j]) THEN picks[j].clv.val ELSE <<0, 1>>]

Clvs(picks) ==
    LET usable == SelectSeq(picks, UsableClv)
    IN [j \in 1..Len(usable) |-> usable[j].clv.val]

RECURSIVE SumFrac(_)
SumFrac(cs) ==
    IF cs = <<>> THEN <<0, 1>>
    ELSE FracSub(Head(cs), LET t == SumFrac(Tail(cs)) IN <<-t[1], t[2]>>)

RECURSIVE InsertFrac(_, _)
InsertFrac(sorted, c) ==
    IF sorted = <<>> THEN <<c>>
    ELSE IF FracGT(sorted[Len(sorted)], c)
         THEN Append(InsertFrac(SubSeq(sorted, 1, Len(sorted) - 1), c),
                     sorted[Len(sorted)])
         ELSE Append(sorted, c)

RECURSIVE SortFracs(_)
SortFracs(cs) ==
    IF cs = <<>> THEN <<>>
    ELSE InsertFrac(SortFracs(SubSeq(cs, 1, Len(cs) - 1)), cs[Len(cs)])

\* round(c, 5) in units of 1e-5
Round5(c) == RoundDiv(c[1] * 100000, c[2])

\* lines 196-208: n alone without a value, else n, mean, median, percent
\* positive (in tenths), min and max
_aggregate(picks) ==
    LET clvs == Clvs(picks)
        n == Len(clvs)
        clvs_sorted == SortFracs(clvs)
        total == SumFrac(clvs)
        median == IF n % 2 = 1 THEN clvs_sorted[(n \div 2) + 1]
                  ELSE LET two == FracSub(clvs_sorted[n \div 2],
                                          <<-clvs_sorted[(n \div 2) + 1][1],
                                            clvs_sorted[(n \div 2) + 1][2]>>)
                       IN Frac(two[1], two[2] * 2)
    IN IF n = 0 THEN [n |-> 0]
       ELSE [n |-> n,
             mean |-> Round5(Frac(total[1], total[2] * n)),
             median |-> Round5(median),
             pct_positive |-> RoundDiv(Cardinality({j \in 1..n : clvs[j][1] > 0}) * 1000, n),
             min |-> Round5(clvs_sorted[1]),
             max |-> Round5(clvs_sorted[n])]

\* lines 298-308 and 322: the records of the picks that have one, aggregated
AuditReport(lst, cls) ==
    LET recs == [j \in 1..Len(lst) |->
                    _compute_pick_clv(lst[j],
                        IF lst[j].event_id \in DOMAIN cls THEN cls[lst[j].event_id]
                        ELSE <<>>)]
        Truthy(rec) == ~IsNone(rec)
        clv_picks == SelectSeq(recs, Truthy)
    IN [n_picks |-> Len(clv_picks),
        n_skipped |-> Len(lst) - Len(clv_picks),
        overall |-> _aggregate(clv_picks)]

\* what an audited pick and its closing lines can look like
AuditKinds ==
    {"moneyline", "spread", "no_snapshot", "late_snapshot", "no_away_price",
     "no_side", "totals", "nan_point"}

\* moneyline prices <<home, away>> of slot s: the locked_* columns, the
\* snapshot before the lock and the snapshot before the start of the game
AuditLockedOdds(s) ==
    CASE s % 3 = 1 -> <<-110, -110>>
      [] s % 3 = 2 -> <<-150, 150>>
      [] OTHER -> <<-300, 300>>
AuditEarlyOdds(s) == <<-300, 300>>
AuditClosingOdds(s) ==
    CASE s % 3 = 1 -> <<-150, 150>>
      [] s % 3 = 2 -> <<-110, -110>>
      [] OTHER -> <<-150, 150>>

\* the locked pick of slot s, locked at time 2 for a game starting at time 5
AuditPick(s, kind) ==
    [event_id |-> s,
     market |-> CASE kind \in {"spread", "nan_point"} -> "spread"
                  [] kind = "totals" -> "totals"
                  [] OTHER -> "moneyline",
     locked_at |-> 2,
     game_start_time |-> 5,
     selection_team |-> IF kind = "no_side" THEN ""
                        ELSE IF s % 2 = 1 THEN HomeOf(s) ELSE AwayOf(s),
     side |-> "",
     tier |-> "A",
     locked_ml_home |-> Num(AuditLockedOdds(s)[1]),
     locked_ml_away |-> Num(AuditLockedOdds(s)[2]),
     locked_spread_home_point |-> Num(<<-7, 2>>),
     locked_spread_home_price |-> Num(-150),
     locked_spread_away_point |-> Num(<<7, 2>>),
     locked_spread_away_price |-> Num(150)]

\* one snapshot of the closing_lines rows of slot s, captured at time t, with
\* moneyline prices ml
SnapshotRows(s, t, kind, ml) ==
    LET Row(mkt, team, price, point) ==
            [captured_at |-> t, home_team |-> HomeOf(s), away_team |-> AwayOf(s),
             market |-> mkt, outcome_name |-> team, price |-> price, point |-> point]
    IN <<Row("h2h", HomeOf(s), Num(ml[1]), None)>>
       \o (IF kind = "no_away_price" THEN <<>>
           ELSE <<Row("h2h", AwayOf(s), Num(ml[2]), None)>>)
       \o <<Row("spreads", HomeOf(s), Num(100),
                IF kind = "nan_point" THEN NaN ELSE Num(<<-5, 1>>)),
            Row("spreads", AwayOf(s), Num(100),
                IF kind = "nan_point" THEN NaN ELSE Num(<<5, 1>>))>>

\* the closing_lines rows of slot s: none, one snapshot after the start of the
\* game, or one at time 4 (and for even slots an older one at time 1)
AuditLines(s, kind) ==
    CASE kind = "no_snapshot" -> <<>>
      [] kind = "late_snapshot" -> SnapshotRows(s, 9, kind, AuditClosingOdds(s))
      [] OTHER -> SnapshotRows(s, 4, kind, AuditClosingOdds(s))
                  \o (IF s % 2 = 0 THEN SnapshotRows(s, 1, kind, AuditEarlyOdds(s))
                      ELSE <<>>)

AggValues ==
    {None, NaN, Inf(1), Num(<<-1, 50>>), Num(<<0, 1>>), Num(<<3, 100>>), Num(<<1, 40>>)}

\* the records handed to _aggregate: with a clv value, or without the key
AggRows == {[clv |-> v] : v \in AggValues} \cup {[tier |-> "A"]}

InitClv ==
    /\ NBA_ELO = NBA_ELO_SEED
    /\ locked = <<>>
    /\ games = EmptyDict
    /\ closing = EmptyDict
    /\ pc = "clv"
    /\ vi = 1
    /\ cur = NoReplay
    /\ results = <<>>
    /\ traces = <<>>
    /\ gate_in = NoGate
    /\ gate_out = NoGate
    /\ orch = NoOrch
    /\ call = NoCall

ClvFrame ==
    /\ pc' = "called"
    /\ UNCHANGED <<NBA_ELO, vi, cur, results, traces, gate_in, gate_out, orch>>

\* clv_auditor.run, lines 291-322
AuditRun ==
    /\ pc = "clv"
    /\ \E n \in 0..MaxAudit :
       \E kinds \in [1..n -> AuditKinds] :
          /\ locked' = [s \in 1..n |-> AuditPick(s, kinds[s])]
          /\ closing' = [s \in {e \in 1..n : kinds[e] # "no_snapshot"} |->
                            AuditLines(s, kinds[s])]
          /\ games' = games
          /\ call' = [fn |-> "clv_auditor.run",
                      ret |-> AuditReport(locked', closing')]
    /\ ClvFrame

CallAggregate ==
    /\ pc = "clv"
    /\ \E n \in 0..MaxAudit :
       \E picks \in [1..n -> AggRows] :
          call' = [fn |-> "_aggregate", args |-> picks, ret |-> _aggregate(picks)]
    /\ UNCHANGED <<locked, games, closing>>
    /\ ClvFrame

\* one call of _replay_variant, scored; at most one pick has no closing lines
CallReplayVariant ==
    /\ pc = "clv"
    /\ \E n \in 0..MaxPicks :
       \E rot \in 0..Min(1, Max(0, n - 1)) :
       \E won \in [1..n -> {0, 1}] :
       \E bad \in 0..n :
       \E defect \in IF bad = 0 THEN {"none"} ELSE {"no_closing"} :
          /\ locked' = InputLocked(n, rot, bad, defect)
          /\ games' = InputGames(n, won, bad, defect)
          /\ closing' = InputClosing(n, bad, defect)
    /\ \E v \in 1..Len(_generate_variants) :
          LET st == _replay_variant(_generate_variants[v], locked', games', closing', NBA_ELO)
          IN call' = [fn |-> "_replay_variant",
                      args |-> _generate_variants[v],
                      n_clv |-> Len(st.clv_vals),
                      ret |-> Score(st)]
    /\ ClvFrame

\* the pick without the odds stored at commitment
WithoutLockedOdds(pick) ==
    [pick EXCEPT !.locked_ml_home = None, !.locked_ml_away = None,
                 !.locked_spread_home_point = None, !.locked_spread_home_price = None,
                 !.locked_spread_away_point = None, !.locked_spread_away_price = None]

\* one call of _compute_pick_clv, lines 300-301
CallComputePickClv ==
    /\ pc = "clv"
    /\ \E s \in 1..MaxAudit, kind \in AuditKinds, stored \in BOOLEAN :
          LET pick == IF stored THEN AuditPick(s, kind)
                      ELSE WithoutLockedOdds(AuditPick(s, kind))
              lines == AuditLines(s, kind)
          IN call' = [fn |-> "_compute_pick_clv", args |-> <<pick, lines>>,
                      ret |-> _compute_pick_clv(pick, lines)]
    /\ UNCHANGED <<locked, games, closing>>
    /\ ClvFrame

NextClv == AuditRun \/ CallAggregate \/ CallReplayVariant \/ CallComputePickClv

SpecClv == InitClv /\ [][NextClv]_vars

-----------------------------------------------------------------------------
(* Properties of the CLV aggregates *)

\* the locked pick has closing lines captured at or before the start of its game
HasSnapshot(lp) ==
    /\ lp.event_id \in DOMAIN closing
    /\ \E j \in 1..Len(closing[lp.event_id]) :
          LET cl == closing[lp.event_id][j]
          IN "captured_at" \in DOMAIN cl => cl.captured_at <= lp.game_start_time

\* the record handed to _aggregate has a CLV value
HasClv(p) == "clv" \in DOMAIN p /\ ~IsNone(p.clv)

\* the two CLV aggregates of a replay row
ClvAggregates(row) == <<row.mean_clv, row.pct_positive_clv>>

\* _aggregate gives what it gives for the records that have a CLV value
AggregateIgnoresUndefined ==
    Called("_aggregate") => call.ret = _aggregate(SelectSeq(call.args, HasClv))

\* the audit gives no record to a pick without a closing snapshot, and its
\* overall aggregate is that of the picks that have one
AuditIgnoresUndefined ==
    Called("clv_auditor.run") =>
       /\ call.ret.n_picks <= Len(SelectSeq(locked, HasSnapshot))
       /\ call.ret.overall = AuditReport(SelectSeq(locked, HasSnapshot), closing).overall

\* the replay gives no CLV value to a pick without closing lines, and its two
\* CLV aggregates are those of the replay of the picks that have closing lines
ReplayIgnoresUndefined ==
    Called("_replay_variant") =>
       /\ call.n_clv <= Len(SelectSeq(locked, HasSnapshot))
       /\ ClvAggregates(call.ret)
             = ClvAggregates(Score(_replay_variant(call.args, SelectSeq(locked, HasSnapshot),
                                                   games, closing, NBA_ELO)))

\* every pick without closing lines starts after every pick that has them
UndefinedLast ==
    \A j \in 1..Len(locked), k \in 1..Len(locked) :
       (~HasSnapshot(locked[j]) /\ HasSnapshot(locked[k]))
          => StartKey(locked[j]) > StartKey(locked[k])

\* C20, as stated: a pick without a closing snapshot gets no CLV value, and
\* adding picks with an undefined CLV to the input of _aggregate, of the audit
\* or of a replay leaves the mean CLV and the percent-positive CLV unchanged
C20_UndefinedClvExcluded ==
    /\ AggregateIgnoresUndefined
    /\ AuditIgnoresUndefined
    /\ ReplayIgnoresUndefined

\* C20, amended: the same, for a replay only when the added picks come last in
\* the walk-forward order (an earlier pick still updates the ratings that
\* decide the later bets)
C20_UndefinedClvExcludedWhenLast ==
    /\ AggregateIgnoresUndefined
    /\ AuditIgnoresUndefined
    /\ UndefinedLast => ReplayIgnoresUndefined

\* a replay whose last pick has no closing lines: it is bet, has no CLV value,
\* and the CLV aggregates come from the earlier bets
C20_Witness ==
    /\ Called("_replay_variant")
    /\ UndefinedLast
    /\ \E j \in 1..Len(locked) : ~HasSnapshot(locked[j])
    /\ call.n_clv >= 1
    /\ call.ret.n_bets > call.n_clv
    /\ call.ret.mean_clv # 0

\* the audit skips a pick without a snapshot and aggregates two others
AuditSkipsPick ==
    /\ Called("clv_auditor.run")
    /\ \E j \in 1..Len(locked) : ~HasSnapshot(locked[j])
    /\ call.ret.n_skipped >= 1
    /\ call.ret.overall.n = 2
    /\ call.ret.overall.mean # 0

\* _aggregate is handed a None, a record without CLV and two values
AggregateSkipsNone ==
    /\ Called("_aggregate")
    /\ \E j \in 1..Len(call.args) : ~HasClv(call.args[j])
    /\ call.ret.n = 2
    /\ call.ret.mean # 0

-----------------------------------------------------------------------------
(* strategy_tournament.py: the replay of rows with malformed locked odds *)

\* a locked price that is zero, not finite, or a text that is no number
MalformedOdds == {Num(0), NaN, Inf(1), Inf(-1), [tag |-> "str", val |-> "abc"]}

\* n picks in start order; the home or the away price of slot bad is malformed
MalformedLocked(n, bad, side, odds) ==
    [s \in 1..n |->
        IF s # bad THEN PickRow(s, s, "none")
        ELSE IF side = "home"
        THEN [PickRow(s, s, "none") EXCEPT !.locked_ml_home = odds]
        ELSE [PickRow(s, s, "none") EXCEPT !.locked_ml_away = odds]]

InitMalformed ==
    /\ NBA_ELO = NBA_ELO_SEED
    /\ \E n \in 1..MaxPicks :
       \E won \in [1..n -> {0, 1}] :
       \E bad \in 1..n :
       \E side \in {"home", "away"} :
       \E odds \in MalformedOdds :
          /\ locked = MalformedLocked(n, bad, side, odds)
          /\ games = InputGames(n, won, 0, "none")
          /\ closing = InputClosing(n, 0, "none")
    /\ pc = "run_loop"
    /\ vi = 1
    /\ cur = NoReplay
    /\ results = <<>>
    /\ traces = <<>>
    /\ gate_in = NoGate
    /\ gate_out = NoGate
    /\ orch = NoOrch
    /\ call = NoCall

\* the exception of line 133 or 139 leaves _replay_variant and run
ReplayAborts ==
    /\ pc = "replay"
    /\ ~IsNone(cur.raised)
    /\ pc' = "raised"
    /\ UNCHANGED <<NBA_ELO, locked, games, closing, vi, cur, results, traces,
                   gate_in, gate_out, orch, call>>

NextMalformed == StartReplay \/ ReplayPick \/ FinishReplay \/ ReplayAborts

SpecMalformed == InitMalformed /\ [][NextMalformed]_vars

\* C21: the replay of any rows runs to the end of the pick sequence and returns
\* a result; a row with zero, non-finite or unparsable locked odds never aborts
\* it
C21_MalformedRowNeverAborts ==
    /\ pc # "raised"
    /\ pc = "replay" => IsNone(cur.raised)

\* rows whose malformed price is replaced by a fallback are replayed to the end
MalformedRowReplayed ==
    /\ pc = "run_loop"
    /\ results # <<>>
    /\ \E j \in 1..Len(locked) :
          \/ ~isfinite(locked[j].locked_ml_home)
          \/ ~isfinite(locked[j].locked_ml_away)
          \/ locked[j].locked_ml_home = Num(0)
    /\ results[Len(results)].n_bets = Len(locked)

-----------------------------------------------------------------------------
(* The tournament on an empty pick sequence *)

\* C22: with an empty pick sequence no configuration is replayed, nothing is
\* ranked and no promotion gate is evaluated (the run yields an explicit
\* insufficient-data result instead)
C22_EmptyInputInsufficientData ==
    locked = <<>> =>
       /\ cur = NoReplay
       /\ results = <<>>
       /\ gate_in = NoGate
       /\ gate_out = NoGate

\* the empty pick sequence went through the 36 replays, the ranking and the
\* five gate checks, on rows without a bet
EmptyInputGated ==
    /\ locked = <<>>
    /\ pc = "done"
    /\ Len(results) = Len(_generate_variants)
    /\ \A j \in 1..Len(results) : results[j].n_bets = 0 /\ results[j].logloss = LL_INF
    /\ ~IsNone(gate_in.champion)
    /\ Len(gate_out.checks) = 5
    /\ ~gate_out.passed

-----------------------------------------------------------------------------
(* The commitment odds of a CLV record *)

\* the moneyline CLV of the call's pick from the given commitment prices
MoneylineClvFrom(ml_home, ml_away) ==
    LET pick == call.args[1]
        closing_odds == _extract_odds_at(call.args[2], pick.game_start_time)
    IN clv_moneyline(ml_home, ml_away,
                     DictGet(closing_odds, "ml_home", None),
                     DictGet(closing_odds, "ml_away", None),
                     call.ret.side)

\* C23: the CLV of a moneyline pick that carries its commitment odds is
\* computed from those odds; the snapshot at or before the commitment time is
\* used only when the pick carries none
C23_StoredCommitmentOddsFirst ==
    (Called("_compute_pick_clv") /\ ~IsNone(call.ret) /\ call.ret.market = "moneyline"
       /\ ~IsNone(call.args[1].locked_ml_home) /\ ~IsNone(call.args[1].locked_ml_away))
      => call.ret.clv = MoneylineClvFrom(call.args[1].locked_ml_home,
                                         call.args[1].locked_ml_away)

\* a pick that carries -150/+150 and has a snapshot of -300/+300 before its
\* commitment: the snapshot's prices are the commitment odds of the record
SnapshotOverridesStoredOdds ==
    /\ Called("_compute_pick_clv")
    /\ ~IsNone(call.ret)
    /\ call.ret.market = "moneyline"
    /\ call.args[1].locked_ml_home = Num(-150)
    /\ call.ret.clv # MoneylineClvFrom(Num(-150), Num(150))
    /\ call.ret.clv = MoneylineClvFrom(Num(-300), Num(300))

-----------------------------------------------------------------------------
(* clv_timing/snapshots.py.  Capture times are whole seconds, 0 for a row     *)
(* without captured_at; the timestamps are in one ISO format, so that their   *)
(* order as strings is their order in time.                                   *)

MaxSnapRows == 3
MaxTime == 4

\* the times of a set in ascending order
RECURSIVE Ascending(_)
Ascending(ts) ==
    IF ts = {} THEN <<>>
    ELSE LET t == CHOOSE x \in ts : \A y \in ts : x <= y
         IN <<t>> \o Ascending(ts \ {t})

\* the rows grouped by captured_at, ascending; rows without one are left out
group_by_timestamp(rows) ==
    LET times == Ascending({rows[j].captured_at : j \in 1..Len(rows)} \ {0})
    IN [g \in 1..Len(times) |->
           LET At(r) == r.captured_at = times[g]
           IN <<times[g], SelectSeq(rows, At)>>]

\* lines 120-130: the last snapshot at or before the target, scanning up to the
\* first later one
RECURSIVE ScanAtOrBefore(_, _, _, _)
ScanAtOrBefore(snapshots, j, target, best) ==
    IF j > Len(snapshots) THEN best
    ELSE IF snapshots[j][1] <= target
    THEN ScanAtOrBefore(snapshots, j + 1, target,
                        [ts |-> snapshots[j][1], rows |-> snapshots[j][2],
                         gap |-> Abs(target - snapshots[j][1])])
    ELSE best

\* lines 132-143: the first snapshot at the least distance
RECURSIVE ScanNearest(_, _, _, _)
ScanNearest(snapshots, j, target, best) ==
    IF j > Len(snapshots) THEN best
    ELSE LET gap == Abs(target - snapshots[j][1])
         IN IF IsNone(best) \/ gap < best.gap
            THEN ScanNearest(snapshots, j + 1, target,
                             [ts |-> snapshots[j][1], rows |-> snapshots[j][2],
                              gap |-> gap])
            ELSE ScanNearest(snapshots, j + 1, target, best)

\* the closest snapshot whatever the direction asked for
nearest_snapshot_closest(snapshots, target_iso, direction) ==
    IF target_iso = 0 \/ snapshots = <<>> THEN None
    ELSE ScanNearest(snapshots, 1, target_iso, None)

nearest_snapshot(snapshots, target_iso, direction) ==
    IF target_iso = 0 \/ snapshots = <<>> THEN None
    ELSE IF direction = "at_or_before"
    THEN ScanAtOrBefore(snapshots, 1, target_iso, None)
    ELSE ScanNearest(snapshots, 1, target_iso, None)

\* row j of an event's closing_lines: a moneyline price of the home team (odd
\* j) or the away team, captured at time t, its price telling t and j apart
SnapRow(j, t) ==
    [captured_at |-> t, home_team |-> Teams[1], away_team |-> Teams[2],
     market |-> "h2h", outcome_name |-> IF j % 2 = 1 THEN Teams[1] ELSE Teams[2],
     price |-> Num(100 * t + 10 + j), point |-> None]

InitSnap ==
    /\ NBA_ELO = NBA_ELO_SEED
    /\ locked = <<>>
    /\ games = EmptyDict
    /\ closing = EmptyDict
    /\ pc = "snapshots"
    /\ vi = 1
    /\ cur = NoReplay
    /\ results = <<>>
    /\ traces = <<>>
    /\ gate_in = NoGate
    /\ gate_out = NoGate
    /\ orch = NoOrch
    /\ call = NoCall

SnapFrame ==
    /\ pc' = "called"
    /\ UNCHANGED <<NBA_ELO, locked, games, closing, vi, cur, results, traces,
                   gate_in, gate_out, orch>>

\* features.py lines 71-93: nearest_snapshot(group_by_timestamp(rows), target)
CallNearestSnapshot ==
    /\ pc = "snapshots"
    /\ \E n \in 0..MaxSnapRows :
       \E times \in [1..n -> 0..MaxTime] :
       \E target \in 0..(MaxTime + 1) :
       \E direction \in {"at_or_before", "nearest"} :
          LET rows == [j \in 1..n |-> SnapRow(j, times[j])]
          IN call' = [fn |-> "nearest_snapshot",
                      args |-> <<rows, target, direction>>,
                      ret |-> nearest_snapshot(group_by_timestamp(rows), target,
                                               direction)]
    /\ SnapFrame

CallExtractOddsAt ==
    /\ pc = "snapshots"
    /\ \E n \in 0..MaxSnapRows :
       \E times \in [1..n -> 0..MaxTime] :
       \E cutoff \in 0..(MaxTime + 1) :
          LET rows == [j \in 1..n |-> SnapRow(j, times[j])]
          IN call' = [fn |-> "_extract_odds_at", args |-> <<rows, cutoff>>,
                      ret |-> _extract_odds_at(rows, cutoff)]
    /\ SnapFrame

NextSnap == CallNearestSnapshot \/ CallExtractOddsAt

SpecSnap == InitSnap /\ [][NextSnap]_vars

\* the capture times of the call's rows that are at or before its target
TimesAtOrBefore ==
    {call.args[1][j].captured_at : j \in 1..Len(call.args[1])}
       \cap 1..call.args[2]

LatestAtOrBefore == CHOOSE t \in TimesAtOrBefore : \A u \in TimesAtOrBefore : u <= t

ExtractedFromLatest ==
    /\ Called("_extract_odds_at")
    /\ Cardinality(TimesAtOrBefore) = 2
    /\ DOMAIN call.ret \cap {"ml_home", "ml_away"} # {}

-----------------------------------------------------------------------------
(* Properties of the rating updates of a replay *)

\* the pick reaches the prediction of line 107: it has a game with both
\* scores, two team names and the moneyline market
Processed(lp) ==
    /\ lp.event_id \in DOMAIN games
    /\ strip(lp.home_team) # ""
    /\ strip(lp.away_team) # ""
    /\ ~IsNone(games[lp.event_id].home_score)
    /\ ~IsNone(games[lp.event_id].away_score)
    /\ lp.market = "moneyline"

\* the rating table before and after position j of the running replay
RatingsBefore(j) == IF j = 1 THEN SeedRatings(NBA_ELO_SEED) ELSE cur.trace[j - 1]
RatingsAfter(j) == cur.trace[j]

\* a team's rating in a table, 1500 for a team the table does not hold
RatingIn(table, team) == IF team \in DOMAIN table THEN table[team] ELSE 1500 * PROB_ONE

\* C25: every processed moneyline pick with a final score moves the home rating
\* by +D and the away rating by -D, D = K * (homeWon - pHome), homeWon = 1 iff
\* the home score exceeds the away score, pHome computed from the ratings
\* before the update plus the home advantage; an unseen team starts at 1500
C25_EloUpdateRule ==
    pc = "replay" =>
       \A j \in 1..Len(cur.trace) :
          LET lp == cur.timed[j]
              home == strip(lp.home_team)
              away == strip(lp.away_team)
          IN Processed(lp) =>
                LET game == games[lp.event_id]
                    homeWon == IF game.home_score.val > game.away_score.val THEN 1 ELSE 0
                    oldHome == RatingIn(RatingsBefore(j), home)
                    oldAway == RatingIn(RatingsBefore(j), away)
                    pHome == elo_win_prob(oldHome + cur.variant.HFA * PROB_ONE, oldAway)
                    D == cur.variant.K * (homeWon * PROB_ONE - pHome)
                IN /\ cur.probs[j] = Num(pHome)
                   /\ RatingsAfter(j)[home] = oldHome + D
                   /\ RatingsAfter(j)[away] = oldAway - D

\* a processed pick whose away team was not in the table and whose home team
\* won: both ratings moved
C25_Witness ==
    /\ pc = "replay"
    /\ \E j \in 1..Len(cur.trace) :
          LET lp == cur.timed[j]
          IN /\ Processed(lp)
             /\ strip(lp.away_team) \notin DOMAIN RatingsBefore(j)
             /\ games[lp.event_id].home_score.val > games[lp.event_id].away_score.val
             /\ RatingsAfter(j)[strip(lp.away_team)] < 1500 * PROB_ONE
             /\ RatingsAfter(j)[strip(lp.home_team)]
                   > RatingIn(RatingsBefore(j), strip(lp.home_team))

\* every team of the inputs or of a table
AllTeams(table) == {Teams[j] : j \in 1..Len(Teams)} \cup DOMAIN table

RECURSIVE SumRatings(_, _)
SumRatings(table, teams) ==
    IF teams = {} THEN 0
    ELSE LET t == CHOOSE x \in teams : TRUE
         IN RatingIn(table, t) + SumRatings(table, teams \ {t})

TotalRating(table) == SumRatings(table, AllTeams(table))

-----------------------------------------------------------------------------
(* Which picks of a replay are bets *)

\* the step is one iteration of the replay loop, over the pick cur.timed[cur.i]
ReplayIteration ==
    /\ pc = "replay"
    /\ cur.i <= Len(cur.timed)
    /\ cur'.i = cur.i + 1

\* the counts of an iteration that is a bet on a side that won (1) or lost (0)
CountedAsBet(bet_won, p_side, odds) ==
    /\ cur'.n_bets = cur.n_bets + 1
    /\ cur'.n_wins = cur.n_wins + bet_won
    /\ cur'.n_losses = cur.n_losses + (1 - bet_won)
    /\ cur'.logloss_vals = Append(cur.logloss_vals, logloss(bet_won, p_side))
    /\ cur'.units_total
          = cur.units_total + (IF bet_won = 1 THEN american_profit(odds).val ELSE -100000)

NotCounted ==
    /\ cur'.n_bets = cur.n_bets
    /\ cur'.n_wins = cur.n_wins
    /\ cur'.n_losses = cur.n_losses
    /\ cur'.logloss_vals = cur.logloss_vals
    /\ cur'.units_total = cur.units_total
    /\ cur'.clv_vals = cur.clv_vals

\* what the claim says of the iteration over pick lp: with both locked prices
\* and the larger edge at least MIN_EDGE it is a bet on the larger-edge side
\* (home when the edges are equal), and else it is no bet
BetRule(lp) ==
    LET lh == lp.locked_ml_home
        la == lp.locked_ml_away
    IN IF ~Processed(lp) \/ IsNone(lh) \/ IsNone(la) THEN NotCounted
       ELSE LET game == games[lp.event_id]
                homeWon == IF game.home_score.val > game.away_score.val THEN 1 ELSE 0
                pHome == cur'.probs[cur.i].val
                nv == normalize_no_vig(implied_prob(lh), implied_prob(la))
                nvHome == nv[1].val
                nvAway == nv[2].val
                edgeHome == <<pHome * nvHome[2] - PROB_ONE * nvHome[1], PROB_ONE * nvHome[2]>>
                edgeAway == <<(PROB_ONE - pHome) * nvAway[2] - PROB_ONE * nvAway[1],
                              PROB_ONE * nvAway[2]>>
                homeSide == FracGE(edgeHome, edgeAway)
                edge == IF homeSide THEN edgeHome ELSE edgeAway
            IN IF edge[1] * 100 >= cur.variant.MIN_EDGE * edge[2]
               THEN IF homeSide THEN CountedAsBet(homeWon, pHome, lh)
                    ELSE CountedAsBet(1 - homeWon, PROB_ONE - pHome, la)
               ELSE NotCounted

\* C26: a pick is counted as a bet (bet count, win or loss count, log-loss,
\* units) if and only if it has both locked moneyline prices and the larger of
\* the two side edges is at least MIN_EDGE, and the side scored is the
\* larger-edge side, home when the edges are equal
C26_BetIffLargerEdgeReachesMinEdge ==
    [][ReplayIteration => BetRule(cur.timed[cur.i])]_vars

\* a replay of three picks with both prices, all won by the home team: one was
\* passed over, one was a bet on the home side (won) and one a bet on the away
\* side (lost)
C26_Witness ==
    /\ pc = "replay"
    /\ Len(cur.timed) = 3
    /\ cur.i = 4
    /\ \A j \in 1..3 :
          /\ Processed(cur.timed[j])
          /\ ~IsNone(cur.timed[j].locked_ml_home)
          /\ ~IsNone(cur.timed[j].locked_ml_away)
          /\ games[cur.timed[j].event_id].home_score.val
                > games[cur.timed[j].event_id].away_score.val
    /\ cur.n_bets = 2
    /\ cur.n_wins = 1
    /\ cur.n_losses = 1

-----------------------------------------------------------------------------
(* The order of the orchestrator's stages *)

\* the report keys of the stages and of the gate, in the claimed order
StageOrder ==
    <<"clv_auditor", "error_attribution", "feature_discovery",
      "calibration_agent", "strategy_tournament", "gating">>

StagesDone == {StageOrder[j] : j \in 1..Len(StageOrder)} \cap DOMAIN orch.report

FullRun == orch # NoOrch /\ IsNone(orch.agent)

\* C27: in a full run the stages execute once each in the order CLV auditor,
\* error attribution, feature discovery, calibration, tournament, gate
\* evaluation (a stage about to run finds exactly the stages before it done,
\* and the run ends with all six done); in every run the gate is not evaluated
\* before the tournament has returned and no champion artifact is written
\* before the gate has been evaluated
C27_StageOrder ==
    /\ FullRun =>
          /\ \A j \in 1..Len(StageOrder) :
                pc = StageOrder[j] => StagesDone = {StageOrder[e] : e \in 1..(j - 1)}
          /\ pc \in {"deploy", "finalize", "returned", "raised"} =>
                StagesDone = {StageOrder[j] : j \in 1..Len(StageOrder)}
    /\ orch # NoOrch =>
          /\ "gating" \in DOMAIN orch.report =>
                "strategy_tournament" \in DOMAIN orch.report
          /\ ~IsNone(orch.artifact) \/ "deployed_config" \in DOMAIN orch.report =>
                "gating" \in DOMAIN orch.report

\* a full run in deploy mode that has returned, with the gates evaluated
C27_Witness ==
    /\ FullRun
    /\ pc = "returned"
    /\ orch.deploy
    /\ "gating" \in DOMAIN orch.report
    /\ "strategy_tournament" \in DOMAIN orch.returned

-----------------------------------------------------------------------------
(* A challenger that is the champion *)

\* the top-ranked row of the tournament is the champion's own row
ChampionOnTop == orch # NoOrch /\ orch.tourney.top_5[1] = orch.tourney.champion

GatesEvaluated == orch # NoOrch /\ "gating" \in DOMAIN orch.report

\* C29: when the top-ranked tournament result is the champion's own row, the
\* logloss_improvement check fails whatever the log-loss, the verdict is
\* false, and no champion artifact is written and no configuration deployed,
\* in deploy mode too
C29_ChampionNeverBeatsItself ==
    (ChampionOnTop /\ GatesEvaluated) =>
        LET gating == orch.report["gating"]
        IN /\ Len(gating.checks) = 5
           /\ gating.checks[2].gate = "logloss_improvement"
           /\ ~gating.checks[2].passed
           /\ ~gating.passed
           /\ IsNone(orch.artifact)
           /\ "deployed_config" \notin DOMAIN orch.report

\* a run in deploy mode, writing files, that ended with the champion on top
\* and the log-loss check the only one that failed
C29_Witness ==
    /\ ChampionOnTop
    /\ GatesEvaluated
    /\ OrchDone
    /\ orch.deploy
    /\ ~orch.dry_run
    /\ \A j \in {1, 3, 4, 5} : orch.report["gating"].checks[j].passed

-----------------------------------------------------------------------------
(* The overconfidence check without a calibration average *)

\* the calibration stage did not run, or ran without usable picks
NoAvgConfidence == {None, [metrics |-> EmptyDict]}

\* the fallback confidence of a result row is at most 0.62, or within 0.03 of
\* the row's win_pct / 100
FallbackBacked(row) ==
    IF row.n_bets = 0 THEN 5000 <= _GATE_OVERCONFIDENCE_MAX
    ELSE \/ row.n_wins * PROB_ONE <= _GATE_OVERCONFIDENCE_MAX * row.n_bets
         \/ /\ ~IsNone(row.win_pct)
            /\ Abs(row.n_wins * 1000 - row.win_pct.val * row.n_bets) * 100
                  <= 3 * 1000 * row.n_bets

\* C30: without a calibration average confidence the overconfidence check
\* passes for every result row of _replay_variant, whatever its win rate: the
\* confidence judged is the row's own n_wins / n_bets (0.5 with zero bets),
\* which is at most 0.62 or within 0.03 of the row's win rate
C30_OverconfidencePassesWithoutCalibration ==
    /\ \A j \in 1..Len(results) : FallbackBacked(results[j])
    /\ (GateDone /\ BothPresent /\ gate_in.calibration \in NoAvgConfidence) =>
          LET row == gate_in.challenger
              c == gate_out.checks[5]
          IN /\ c.gate = "overconfidence"
             /\ c.passed
             /\ c.avg_confidence
                   = IF row.n_bets > 0 THEN <<row.n_wins, row.n_bets>> ELSE <<1, 2>>

\* the gates ran without a calibration average on a challenger that won more
\* than 62% of its bets, at a rate that one decimal of a percent rounds
C30_Witness ==
    /\ GateDone
    /\ BothPresent
    /\ gate_in.calibration \in NoAvgConfidence
    /\ gate_in.challenger.n_bets > 0
    /\ gate_in.challenger.n_wins * PROB_ONE
          > _GATE_OVERCONFIDENCE_MAX * gate_in.challenger.n_bets
    /\ gate_in.challenger.n_wins * 1000
          # gate_in.challenger.win_pct.val * gate_in.challenger.n_bets
    /\ gate_out.checks[5].passed

=============================================================================
